---- MODULE Spec2Model ----
(***************************************************************************)
(* A model of the panel-extraction core of AdenzuMangaPanelExtractor:      *)
(* src/image_processing/panel.py (the detection pipeline and the folder    *)
(* drivers), src/image_processing/model.py (the lazily loaded detector)    *)
(* and src/app.py (the web UI's batch driver).                             *)
(*                                                                         *)
(* OpenCV and NumPy are external libraries: what they compute is modelled  *)
(* by their documented contract (boundingRect, contourArea, drawContours,  *)
(* bitwise_and, subtract, ...), and what findContours finds on a page is   *)
(* an input of the model.                                                  *)
(***************************************************************************)
EXTENDS Integers, Sequences, FiniteSets, TLC

VARIABLES
    call,            \* the function under way and its arguments
    pc,              \* the position inside that function
    ret,             \* the value returned ("none" before the return)
    contours,        \* generate_panel_blocks: local `contours` / `bounding_boxes`
    grouped,         \* generate_panel_blocks: the groups still to be merged
    panels,          \* generate_panel_blocks: local `panels`
    thresholdCalls,  \* how many times threshold_extraction ran in this call
    pageIdx,         \* batch drivers: index of the page being processed
    attempted,       \* batch drivers: the pages whose processing was started
    nameBound,       \* process_images: local `original_filename` is bound
    tempDir,         \* process_images: panel_output_dir on disk (absent, empty, ...)
    model,           \* Model.model of the process-wide `model` object
    imported,        \* Model.imported
    loads,           \* how many times torch.hub.load was invoked
    PosixPath,       \* the class pathlib.PosixPath is bound to
    threads,         \* the threads calling into `model`: position and locals
    earlier          \* what the earlier calls of the same function returned

vars == <<call, pc, ret, contours, grouped, panels, thresholdCalls,
          pageIdx, attempted, nameBound, tempDir,
          model, imported, loads, PosixPath, threads, earlier>>

(***************************************************************************)
(* Generic helpers.                                                        *)
(***************************************************************************)
Min(a, b) == IF a <= b THEN a ELSE b

Max(a, b) == IF a >= b THEN a ELSE b

Abs(a) == IF a >= 0 THEN a ELSE -a

Range(s) == {s[i] : i \in DOMAIN s}

RECURSIVE SetMin(_)
SetMin(S) ==
    LET x == CHOOSE x \in S : TRUE
    IN  IF S = {x} THEN x ELSE Min(x, SetMin(S \ {x}))

RECURSIVE SetMax(_)
SetMax(S) ==
    LET x == CHOOSE x \in S : TRUE
    IN  IF S = {x} THEN x ELSE Max(x, SetMax(S \ {x}))

RECURSIVE SelectSeqBy(_, _)
\* Python's list(filter(keep, s)): the kept elements in their order.
SelectSeqBy(s, keep) ==
    IF s = <<>> THEN <<>>
    ELSE IF Head(s) \in keep THEN <<Head(s)>> \o SelectSeqBy(Tail(s), keep)
         ELSE SelectSeqBy(Tail(s), keep)

\* The variables a function does not use keep their initial values.
PipelineIdle ==
    /\ contours = <<>>
    /\ grouped = <<>>
    /\ panels = <<>>
    /\ thresholdCalls = 0

BatchIdle ==
    /\ pageIdx = 0
    /\ attempted = {}
    /\ nameBound = FALSE
    /\ tempDir = "absent"

\* model.py 2-4 and 46: the `model` object as constructed at import time,
\* pathlib untouched, no thread calling into the object, no earlier call.
\* self.model = None (model.py 3); a loaded instance is a positive number.
None == 0

ProcessIdle ==
    /\ model = None
    /\ imported = FALSE
    /\ loads = 0
    /\ PosixPath = "PosixPath"
    /\ threads = <<>>
    /\ earlier = <<>>

ProcessVars == <<model, imported, loads, PosixPath, threads, earlier>>

\* model.py 7 and 42: `if self.model is None`.
load_needed_always(m) == TRUE

load_needed(m) == m = None

\* What makes the loader fail when it is run: the imports (model.py 13-17)
\* or torch.hub.load (model.py 32, 38) raise.
LoaderFaults == {"ImportError", "LoadError"}

\* Model.__call__ up to its line 44 (model.py 41-43, 10-38), run by one
\* thread with no other thread in the object: the object's fields and the
\* number of invocations of torch.hub.load afterwards, and the exception
\* raised, if any.  __load is entered when self.model is None; when
\* self.imported is already True the imports are skipped and line 20 reads
\* the unbound local `sys`; else self.imported is set, the imports run,
\* torch.hub.load is invoked and self.model assigned.  pathlib.PosixPath is
\* bound at the end to what it was bound to at the start (model.py 28-35).
loaded_by_call(m, imp, n, loader) ==
    IF ~load_needed(m)
    THEN [model |-> m, imported |-> imp, loads |-> n, error |-> ""]
    ELSE IF imp
    THEN [model |-> m, imported |-> imp, loads |-> n,
          error |-> "UnboundLocalError"]
    ELSE IF loader = "ImportError"
    THEN [model |-> m, imported |-> TRUE, loads |-> n, error |-> loader]
    ELSE IF loader = "LoadError"
    THEN [model |-> m, imported |-> TRUE, loads |-> n + 1, error |-> loader]
    ELSE [model |-> n + 1, imported |-> TRUE, loads |-> n + 1, error |-> ""]

(***************************************************************************)
(* Contours.  A contour is the sequence of its points (x, y), the corners  *)
(* of a convex polygon.                                                    *)
(***************************************************************************)
Pt(x, y) == [x |-> x, y |-> y]

\* cv2.boundingRect: the upright rectangle of the points, sides inclusive.
boundingRect(contour) ==
    LET xs == {contour.pts[i].x : i \in DOMAIN contour.pts}
        ys == {contour.pts[i].y : i \in DOMAIN contour.pts}
    IN  [x |-> SetMin(xs), y |-> SetMin(ys),
         w |-> SetMax(xs) - SetMin(xs) + 1,
         h |-> SetMax(ys) - SetMin(ys) + 1]

RECURSIVE Shoelace(_, _)
Shoelace(pts, i) ==
    IF i > Len(pts) THEN 0
    ELSE LET p == pts[i]
             q == pts[IF i = Len(pts) THEN 1 ELSE i + 1]
         IN  (p.x * q.y - q.x * p.y) + Shoelace(pts, i + 1)

\* cv2.contourArea (Green's formula) is a multiple of 1/2: this is twice it.
contourArea2(contour) == Abs(Shoelace(contour.pts, 1))

\* A filled axis-parallel rectangle with corners (x0, y0) and (x1, y1).
RectContour(x0, y0, x1, y1) ==
    [pts |-> <<Pt(x0, y0), Pt(x0, y1), Pt(x1, y1), Pt(x1, y0)>>]

\* The contour cv2.findContours returns (CHAIN_APPROX_SIMPLE) for the pixels
\* (0,0)..(k,0) of the first row and (0,1)..(k-1,1) of the second, k >= 1:
\* the ends of the two rows, of area k - 1/2; for k = 1 the two ends of the
\* second row are one pixel.
TrapezoidContour(k) ==
    IF k = 1 THEN [pts |-> <<Pt(0, 0), Pt(0, 1), Pt(1, 0)>>]
    ELSE [pts |-> <<Pt(0, 0), Pt(0, 1), Pt(k - 1, 1), Pt(k, 0)>>]

\* (q - p) x (r - p): which side of the edge p -> q the point r lies on.
Cross(p, q, r) == (q.x - p.x) * (r.y - p.y) - (q.y - p.y) * (r.x - p.x)

\* cv2.drawContours(..., thickness=-1) fills the pixels inside or on the
\* contour: for a convex polygon, those on one side of every edge.
InsideContour(contour, x, y) ==
    LET pts  == contour.pts
        next(i) == pts[IF i = Len(pts) THEN 1 ELSE i + 1]
    IN  \/ \A i \in DOMAIN pts : Cross(pts[i], next(i), Pt(x, y)) >= 0
        \/ \A i \in DOMAIN pts : Cross(pts[i], next(i), Pt(x, y)) <= 0

(***************************************************************************)
(* is_contour_sufficiently_big (panel.py 244-249).                         *)
(***************************************************************************)
PAGE_TO_PANEL_RATIO == 32

is_contour_sufficiently_big_geq(contour, image_height, image_width) ==
    LET image_area     == image_width * image_height
        area_threshold == image_area \div PAGE_TO_PANEL_RATIO
    IN  contourArea2(contour) >= 2 * area_threshold

is_contour_sufficiently_big(contour, image_height, image_width) ==
    LET image_area     == image_width * image_height
        area_threshold == image_area \div PAGE_TO_PANEL_RATIO
    IN  contourArea2(contour) > 2 * area_threshold

\* Bounds of the inputs of the area filter.
AreaMaxHeight == 8

AreaMaxWidth == 8

AreaMaxBase == 6

\* The contours of the area filter are of two rows of pixels, the second as
\* long as the first (area k) or one pixel shorter (area k - 1/2).
AreaInputs ==
    {[fn |-> "is_contour_sufficiently_big", contour |-> c,
      image_height |-> h, image_width |-> w] :
        c \in {TrapezoidContour(k) : k \in 1..AreaMaxBase}
                  \cup {RectContour(0, 0, k, 1) : k \in 1..AreaMaxBase},
        h \in 2..AreaMaxHeight, w \in 1..AreaMaxWidth}

InitArea ==
    /\ call \in {c \in AreaInputs : boundingRect(c.contour).w <= c.image_width}
    /\ pc = "call"
    /\ ret = "none"
    /\ PipelineIdle
    /\ BatchIdle
    /\ ProcessIdle

ApplyAreaFilter ==
    /\ pc = "call"
    /\ call.fn = "is_contour_sufficiently_big"
    /\ ret' = is_contour_sufficiently_big(call.contour, call.image_height,
                                          call.image_width)
    /\ pc' = "done"
    /\ UNCHANGED <<call, contours, grouped, panels, thresholdCalls,
                   pageIdx, attempted, nameBound, tempDir>>
    /\ UNCHANGED ProcessVars

NextArea == ApplyAreaFilter

SpecArea == InitArea /\ [][NextArea]_vars

AreaDone == pc = "done" /\ call.fn = "is_contour_sufficiently_big"

\* C4 (as claimed): the contour is retained iff its area exceeds the exact
\* quotient image_area / 32, i.e. 32 * area > image_area.
C4_ExactQuotient ==
    AreaDone =>
        (ret <=> 16 * contourArea2(call.contour)
                    > call.image_width * call.image_height)

\* C4 (amended): the contour is retained iff its area is strictly greater
\* than the floor of image_area / 32: with image_area = 32 q + r, 0 <= r < 32,
\* exactly the areas q + 1/2, q + 1, ... are retained and area q is rejected.
C4_FloorQuotient ==
    AreaDone =>
        \E q \in 0..(call.image_width * call.image_height), r \in 0..31 :
            /\ call.image_width * call.image_height = 32 * q + r
            /\ ret <=> contourArea2(call.contour) >= 2 * q + 1
            /\ contourArea2(call.contour) = 2 * q => ret = FALSE

\* C4 witness: an area that is not a multiple of 32 and a contour whose area
\* lies between the floor and the exact quotient has been filtered.
C4_Witness ==
    /\ AreaDone
    /\ call.image_width * call.image_height = 48
    /\ contourArea2(call.contour) = 3
    /\ ret = TRUE

(***************************************************************************)
(* Images.  An image is its size and a seed that determines its pixels     *)
(* (three 8-bit channels each), so that distinct places hold distinct      *)
(* pixels.                                                                 *)
(***************************************************************************)
Image(height, width, seed) == [height |-> height, width |-> width, seed |-> seed]

\* image[row, col]: the pixel's three channels.
Pixel(image, row, col) ==
    LET v == (image.seed + 37 * row + 11 * col) % 256
    IN  <<v, (v + 85) % 256, (v + 170) % 256>>

DEFAULT_FILL_IN_COLOR == <<0, 0, 0>>

(***************************************************************************)
(* extract_panels (panel.py 83-123).  A panel is described by the crop it  *)
(* takes, image[y:y+h, x:x+w], and in masked mode by the mask and the fill *)
(* colour; PanelPixels gives its pixels.                                   *)
(***************************************************************************)
\* Whether extract_panels skips the contour: panel.py 109.
is_page_sized_strict(box, image) ==
    \/ box.w * 100 > image.width * 99
    \/ box.h * 100 > image.height * 99

is_page_sized(box, image) ==
    \/ box.w * 100 >= image.width * 99
    \/ box.h * 100 >= image.height * 99

\* The panel of one contour: panel.py 112-119.
fitted_panel(contour, mode, fill_in_color) ==
    LET box == boundingRect(contour)
    IN  IF mode = "masked"
        THEN [mode |-> "masked", x |-> box.x, y |-> box.y, w |-> box.w,
              h |-> box.h, mask |-> contour, fill |-> fill_in_color]
        ELSE [mode |-> "bounding", x |-> box.x, y |-> box.y, w |-> box.w,
              h |-> box.h]

RECURSIVE extract_panels(_, _, _, _, _)
extract_panels(image, panel_contours, accept_page_as_panel, mode, fill_in_color) ==
    IF panel_contours = <<>> THEN <<>>
    ELSE LET contour == Head(panel_contours)
             rest    == extract_panels(image, Tail(panel_contours),
                                       accept_page_as_panel, mode, fill_in_color)
         IN  IF ~accept_page_as_panel /\ is_page_sized(boundingRect(contour), image)
             THEN rest
             ELSE <<fitted_panel(contour, mode, fill_in_color)>> \o rest

(***************************************************************************)
(* threshold_extraction (panel.py 252-270).  `found` is what               *)
(* cv2.findContours returns on the thresholded page (lines 260-266).       *)
(***************************************************************************)
BigContours(found, image) ==
    {c \in Range(found) : is_contour_sufficiently_big(c, image.height, image.width)}

threshold_extraction(image, found, mode) ==
    extract_panels(image, SelectSeqBy(found, BigContours(found, image)),
                   FALSE, mode, DEFAULT_FILL_IN_COLOR)

(***************************************************************************)
(* get_fallback_panels (panel.py 290-310).                                 *)
(***************************************************************************)
\* Whether get_fallback_panels runs threshold_extraction: panel.py 305.
fallback_needed(fallback, primary) == fallback /\ Len(primary) < 2

get_fallback_panels_always(image, found, fallback, primary, mode) ==
    IF fallback
    THEN LET tmp == threshold_extraction(image, found, mode)
         IN  IF Len(tmp) > Len(primary) THEN tmp ELSE primary
    ELSE primary

get_fallback_panels_geq(image, found, fallback, primary, mode) ==
    IF fallback_needed(fallback, primary)
    THEN LET tmp == threshold_extraction(image, found, mode)
         IN  IF Len(tmp) >= Len(primary) THEN tmp ELSE primary
    ELSE primary

get_fallback_panels_page(image, found, fallback, primary, mode) ==
    IF fallback_needed(fallback, primary)
    THEN LET tmp == threshold_extraction(image, found, mode)
         IN  IF Len(tmp) > Len(primary) THEN tmp
             ELSE IF primary = <<>>
                  THEN <<[mode |-> "bounding", x |-> 0, y |-> 0,
                          w |-> image.width, h |-> image.height]>>
                  ELSE primary
    ELSE primary

get_fallback_panels(image, found, fallback, primary, mode) ==
    IF fallback_needed(fallback, primary)
    THEN LET tmp == threshold_extraction(image, found, mode)
         IN  IF Len(tmp) > Len(primary) THEN tmp ELSE primary
    ELSE primary

\* STRIPE_FORMAT_MASK_AREA_RATIO = 0.3, in tenths.
STRIPE_FORMAT_MASK_AREA_RATIO_TENTHS == 3

splitter_runs_leq(mask_area, size, split_joint_panels) ==
    /\ STRIPE_FORMAT_MASK_AREA_RATIO_TENTHS * size >= 10 * mask_area
    /\ split_joint_panels

\* panel.py 279-282: 0.3 > mask_area / size and split_joint_panels, the
\* quotient being exact to well below 1 / size.
splitter_runs(mask_area, size, split_joint_panels) ==
    /\ STRIPE_FORMAT_MASK_AREA_RATIO_TENTHS * size > 10 * mask_area
    /\ split_joint_panels

\* panel.py 235: pixels_before // (4 * pixels_now) raises ZeroDivisionError.
zero_division(pixels_now) == 4 * pixels_now = 0

\* panel.py 113-119: what extract_panels leaves of the caller's image.  The
\* mask is a new array (113) and the contour is drawn on it (114);
\* bitwise_and, bitwise_or and bitwise_not return new arrays; the slices are
\* read only: the image is not written.
image_after_extract_drawn(image, panel_contours, mode) ==
    IF mode = "masked" /\ panel_contours # <<>>
    THEN [image EXCEPT !.seed = (@ + 255) % 256]
    ELSE image

image_after_extract(image, panel_contours, mode) == image

\* panel.py 345-348 and 305-308: the image after get_panels, which calls
\* extract_panels for the group and, in the fallback, for the contours of
\* the thresholded page.
image_after_get_panels(c, group) ==
    LET primary == extract_panels(c.image, group, TRUE, c.mode,
                                  DEFAULT_FILL_IN_COLOR)
        after   == image_after_extract(c.image, group, c.mode)
    IN  IF fallback_needed(c.fallback, primary)
        THEN image_after_extract(after,
                 SelectSeqBy(c.threshold_found,
                             BigContours(c.threshold_found, c.image)), c.mode)
        ELSE after

\* panel.py 350 and 401: `panels = []`.
fresh_panels_kept(old) == old

fresh_panels(old) == <<>>

\* generate_panel_blocks.get_panels (panel.py 345-348).
get_panels(c, group) ==
    get_fallback_panels(c.image, c.threshold_found, c.fallback,
        extract_panels(c.image, group, TRUE, c.mode, DEFAULT_FILL_IN_COLOR),
        c.mode)

\* How many times get_panels runs threshold_extraction for a group.
get_panels_threshold_calls(c, group) ==
    IF fallback_needed(c.fallback,
           extract_panels(c.image, group, TRUE, c.mode, DEFAULT_FILL_IN_COLOR))
    THEN 1 ELSE 0

(***************************************************************************)
(* The panel sorter and the mergers (manga_panel_processor and             *)
(* image_processing.image), after sections 4.5 and 4.8 of the design:      *)
(* boxes whose vertical spans overlap by at least half of the smaller      *)
(* height form a row; rows are ordered by their top, a row's boxes by x.   *)
(***************************************************************************)
\* The (x, y, w, h) box of a contour or of a bounding box.
BoxOf(item) == IF "pts" \in DOMAIN item THEN boundingRect(item) ELSE item

SameRow(a, b) ==
    LET p == BoxOf(a)
        q == BoxOf(b)
        overlap == Min(p.y + p.h, q.y + q.h) - Max(p.y, q.y)
    IN  overlap > 0 /\ 2 * overlap >= Min(p.h, q.h)

SameColumn(a, b) ==
    LET p == BoxOf(a)
        q == BoxOf(b)
        overlap == Min(p.x + p.w, q.x + q.w) - Max(p.x, q.x)
    IN  overlap > 0 /\ 2 * overlap >= Min(p.w, q.w)

RECURSIVE InsertByKey(_, _, _)
InsertByKey(sorted, item, key) ==
    IF sorted = <<>> THEN <<item>>
    ELSE IF key[item] < key[Head(sorted)] THEN <<item>> \o sorted
         ELSE <<Head(sorted)>> \o InsertByKey(Tail(sorted), item, key)

RECURSIVE SortByKey(_, _)
\* Python's sorted(s, key=...): stable, ascending.
SortByKey(s, key) ==
    IF s = <<>> THEN <<>>
    ELSE InsertByKey(SortByKey(SubSeq(s, 1, Len(s) - 1), key), s[Len(s)], key)

RECURSIVE ClusterRows(_, _)
ClusterRows(items, rows) ==
    IF items = <<>> THEN rows
    ELSE IF rows # <<>> /\ SameRow(rows[Len(rows)][1], Head(items))
         THEN ClusterRows(Tail(items),
                          [rows EXCEPT ![Len(rows)] = Append(@, Head(items))])
         ELSE ClusterRows(Tail(items), Append(rows, <<Head(items)>>))

RECURSIVE Flatten(_)
Flatten(rows) == IF rows = <<>> THEN <<>> ELSE Head(rows) \o Flatten(Tail(rows))

sort_panels_by_column_then_row(items, rtl_order) ==
    LET top  == [i \in Range(items) |-> BoxOf(i).y]
        left == [i \in Range(items) |->
                    IF rtl_order THEN -BoxOf(i).x ELSE BoxOf(i).x]
        rows == ClusterRows(SortByKey(items, top), <<>>)
    IN  Flatten([r \in DOMAIN rows |-> SortByKey(rows[r], left)])

RECURSIVE GroupItems(_, _, _)
\* Each item joins the first group it is adjacent to along `axis`, or opens one.
GroupItems(items, groups, axis) ==
    IF items = <<>> THEN groups
    ELSE LET item == Head(items)
             fits == {g \in DOMAIN groups :
                         IF axis = "row" THEN SameRow(groups[g][1], item)
                         ELSE SameColumn(groups[g][1], item)}
         IN  IF fits # {}
             THEN GroupItems(Tail(items),
                      [groups EXCEPT ![SetMin(fits)] = Append(@, item)], axis)
             ELSE GroupItems(Tail(items), Append(groups, <<item>>), axis)

group_contours_horizontally(cs) == GroupItems(cs, <<>>, "row")

group_contours_vertically(cs) == GroupItems(cs, <<>>, "column")

group_bounding_boxes_horizontally(boxes) == GroupItems(boxes, <<>>, "row")

group_bounding_boxes_vertically(boxes) == GroupItems(boxes, <<>>, "column")

\* One panel made of the group's panels, side by side / one above the other.
adaptive_hconcat(parts) == [mode |-> "hconcat", parts |-> parts]

adaptive_vconcat(parts) == [mode |-> "vconcat", parts |-> parts]

(***************************************************************************)
(* The pages of the pipeline model: a 16 x 16 page and the contours        *)
(* cv2.findContours may report on it (external contours: disjoint).        *)
(***************************************************************************)
PageImage == Image(16, 16, 0)

TopLeft == RectContour(0, 0, 6, 6)

TopRight == RectContour(9, 0, 15, 6)

BottomLeft == RectContour(0, 9, 6, 15)

Speck == RectContour(9, 9, 11, 11)

WholePage == RectContour(0, 0, PageImage.width - 1, PageImage.height - 1)

\* The order in which the contours are reported (not the reading order).
PagePool == <<BottomLeft, Speck, TopRight, TopLeft, WholePage>>

BoxesOverlap(a, b) ==
    LET p == boundingRect(a)
        q == boundingRect(b)
    IN  /\ p.x < q.x + q.w /\ q.x < p.x + p.w
        /\ p.y < q.y + q.h /\ q.y < p.y + p.h

\* At most this many contours are found on a page.
MaxFound == 3

FoundLists ==
    {SelectSeqBy(PagePool, S) :
        S \in {S \in SUBSET Range(PagePool) :
                 /\ Cardinality(S) <= MaxFound
                 /\ \A a, b \in S : a # b => ~BoxesOverlap(a, b)}}

MergeModes == {"none", "horizontal", "vertical"}

OutputModes == {"bounding", "masked"}

\* The background mask of the page (panel.py 334) by its number of non-zero
\* pixels, with the number the splitter's thinning and line extensions
\* leave (panel.py 234): a mask without a pixel, which stays without one,
\* and the mask of the first 40 pixels of the 16 x 16 page (two rows and a
\* half), of which 19 pixels are left.
BackgroundMasks ==
    {[mask_area |-> 0, pixels_now |-> 0], [mask_area |-> 40, pixels_now |-> 19]}

GeneratePanelBlocksCalls ==
    {[fn |-> "generate_panel_blocks", image |-> PageImage,
      background |-> b, split_joint_panels |-> s,
      primary_found |-> p, threshold_found |-> t, fallback |-> f,
      mode |-> m, merge |-> g, rtl_order |-> r] :
        b \in BackgroundMasks, s \in BOOLEAN,
        p \in FoundLists, t \in FoundLists, f \in BOOLEAN,
        m \in OutputModes, g \in MergeModes, r \in BOOLEAN}

(***************************************************************************)
(* The detector's answers (panel.py 380-387): rows (x1, y1, x2, y2,        *)
(* confidence, class) of floats, here in tenths of a pixel, or an error    *)
(* raised by the detector, or a loader that fails when model(...) runs it. *)
(***************************************************************************)
Detection(x1, y1, x2, y2) ==
    [x1 |-> x1, y1 |-> y1, x2 |-> x2, y2 |-> y2, conf |-> 9, cls |-> 0]

DetectionPool ==
    <<Detection(4, 96, 69, 158), Detection(95, 2, 159, 67),
      Detection(0, 0, 60, 65), Detection(92, 94, 158, 156)>>

DetectionLists ==
    {SelectSeqBy(DetectionPool, S) :
        S \in {S \in SUBSET Range(DetectionPool) : Cardinality(S) <= MaxFound}}

\* model(processed_image) returns its rows or raises.
DetectorAnswers ==
    {[loader |-> "ok", raises |-> FALSE, xyxy |-> d] : d \in DetectionLists}
        \cup {[loader |-> "ok", raises |-> TRUE, xyxy |-> <<>>]}
        \cup {[loader |-> e, raises |-> FALSE, xyxy |-> <<>>] :
                    e \in LoaderFaults}

GeneratePanelBlocksByAiCalls ==
    {[fn |-> "generate_panel_blocks_by_ai", image |-> PageImage,
      detect |-> d, merge |-> g, rtl_order |-> r] :
        d \in DetectorAnswers, g \in MergeModes, r \in BOOLEAN}

\* Python's int() on a float given in tenths: truncation towards zero.
IntTrunc(tenths) ==
    IF tenths >= 0 THEN tenths \div 10 ELSE -((-tenths) \div 10)

\* panel.py 384-387: one (x, y, w, h) per detection.
detection_boxes_corners(results) ==
    [i \in DOMAIN results |->
        [x |-> IntTrunc(results[i].x1), y |-> IntTrunc(results[i].y1),
         w |-> IntTrunc(results[i].x2), h |-> IntTrunc(results[i].y2)]]

detection_boxes(results) ==
    [i \in DOMAIN results |->
        LET x1 == IntTrunc(results[i].x1)
            y1 == IntTrunc(results[i].y1)
            x2 == IntTrunc(results[i].x2)
            y2 == IntTrunc(results[i].y2)
        IN  [x |-> x1, y |-> y1, w |-> x2 - x1, h |-> y2 - y1]]

\* generate_panel_blocks_by_ai.get_panels (panel.py 394-399).
ai_get_panels(image, boxes) ==
    [i \in DOMAIN boxes |->
        [mode |-> "bounding", x |-> boxes[i].x, y |-> boxes[i].y,
         w |-> boxes[i].w, h |-> boxes[i].h]]

(***************************************************************************)
(* generate_panel_blocks (panel.py 313-362), step by step.                 *)
(***************************************************************************)
BatchVars == <<pageIdx, attempted, nameBound, tempDir>>

InitPanels ==
    /\ call \in GeneratePanelBlocksCalls \cup GeneratePanelBlocksByAiCalls
    /\ pc = "start"
    /\ ret = "none"
    /\ PipelineIdle
    /\ BatchIdle
    /\ ProcessIdle

\* panel.py 341-343: the contours are sorted unless there are none.
sorted_contours_unsorted(cs, rtl_order) == cs

sorted_contours(cs, rtl_order) ==
    IF cs # <<>> THEN sort_panels_by_column_then_row(cs, rtl_order) ELSE cs

\* panel.py 335: get_page_without_background raises when it runs the
\* splitter (panel.py 282) and the splitter divides by zero (panel.py 235).
page_raises(c) ==
    /\ splitter_runs(c.background.mask_area, c.image.height * c.image.width,
                     c.split_joint_panels)
    /\ zero_division(c.background.pixels_now)

\* panel.py 332-337: the page without its background is made, which may
\* raise; else the contours of the page that pass the area filter.
FindContours ==
    /\ pc = "start"
    /\ call.fn = "generate_panel_blocks"
    /\ IF page_raises(call)
       THEN /\ pc' = "raised"
            /\ ret' = "ZeroDivisionError"
            /\ contours' = contours
       ELSE /\ pc' = "sort"
            /\ ret' = ret
            /\ contours' = SelectSeqBy(call.primary_found,
                                BigContours(call.primary_found, call.image))
    /\ UNCHANGED <<call, grouped, panels, thresholdCalls>>
    /\ UNCHANGED BatchVars
    /\ UNCHANGED ProcessVars

\* panel.py 339-343.
SortContours ==
    /\ pc = "sort"
    /\ call.fn = "generate_panel_blocks"
    /\ contours' = sorted_contours(contours, call.rtl_order)
    /\ pc' = "merge"
    /\ UNCHANGED <<call, ret, grouped, panels, thresholdCalls>>
    /\ UNCHANGED BatchVars
    /\ UNCHANGED ProcessVars

\* panel.py 350-352: merge == MergeMode.NONE.
MergeNone ==
    /\ pc = "merge"
    /\ call.fn = "generate_panel_blocks"
    /\ call.merge = "none"
    /\ panels' = get_panels(call, contours)
    /\ thresholdCalls' = thresholdCalls + get_panels_threshold_calls(call, contours)
    /\ call' = [call EXCEPT !.image = image_after_get_panels(call, contours)]
    /\ pc' = "return"
    /\ UNCHANGED <<ret, contours, grouped>>
    /\ UNCHANGED BatchVars
    /\ UNCHANGED ProcessVars

\* panel.py 350, 353-354 and 357-358: panels is the empty list and the
\* contours are grouped.
GroupContours ==
    /\ pc = "merge"
    /\ call.fn = "generate_panel_blocks"
    /\ call.merge # "none"
    /\ panels' = fresh_panels(panels)
    /\ grouped' = IF call.merge = "horizontal"
                  THEN group_contours_horizontally(contours)
                  ELSE group_contours_vertically(contours)
    /\ pc' = "loop"
    /\ UNCHANGED <<call, ret, contours, thresholdCalls>>
    /\ UNCHANGED BatchVars
    /\ UNCHANGED ProcessVars

\* panel.py 355-356 and 359-360: one iteration of `for group in ...`.
MergeGroup ==
    /\ pc = "loop"
    /\ call.fn = "generate_panel_blocks"
    /\ grouped # <<>>
    /\ panels' = Append(panels,
                    IF call.merge = "horizontal"
                    THEN adaptive_hconcat(get_panels(call, Head(grouped)))
                    ELSE adaptive_vconcat(get_panels(call, Head(grouped))))
    /\ thresholdCalls' =
           thresholdCalls + get_panels_threshold_calls(call, Head(grouped))
    /\ call' = [call EXCEPT !.image = image_after_get_panels(call, Head(grouped))]
    /\ grouped' = Tail(grouped)
    /\ UNCHANGED <<pc, ret, contours>>
    /\ UNCHANGED BatchVars
    /\ UNCHANGED ProcessVars

\* panel.py 362 and 413: return panels.
ReturnPanels ==
    /\ \/ pc = "return"
       \/ pc = "loop" /\ grouped = <<>>
    /\ ret' = panels
    /\ pc' = "done"
    /\ UNCHANGED <<call, contours, grouped, panels, thresholdCalls>>
    /\ UNCHANGED BatchVars
    /\ UNCHANGED ProcessVars

(***************************************************************************)
(* generate_panel_blocks_by_ai (panel.py 365-413), step by step.           *)
(***************************************************************************)
\* panel.py 390-392.
sorted_boxes(boxes, rtl_order) ==
    IF boxes # <<>> THEN sort_panels_by_column_then_row(boxes, rtl_order) ELSE boxes

\* panel.py 380-387: model(processed_image) loads the detector if the
\* process has not loaded it yet (model.py 41-43) and runs it (model.py 44);
\* the load or the detector may raise, and the call ends; else one box per
\* row.
Detect ==
    /\ pc = "start"
    /\ call.fn = "generate_panel_blocks_by_ai"
    /\ LET m == loaded_by_call(model, imported, loads, call.detect.loader)
       IN  /\ model' = m.model
           /\ imported' = m.imported
           /\ loads' = m.loads
           /\ IF m.error # ""
              THEN pc' = "raised" /\ ret' = m.error /\ contours' = contours
              ELSE IF call.detect.raises
              THEN pc' = "raised" /\ ret' = "DetectorError"
                                 /\ contours' = contours
              ELSE pc' = "sort" /\ ret' = ret
                               /\ contours' = detection_boxes(call.detect.xyxy)
    /\ UNCHANGED <<call, grouped, panels, thresholdCalls>>
    /\ UNCHANGED <<PosixPath, threads, earlier>>
    /\ UNCHANGED BatchVars

SortBoxes ==
    /\ pc = "sort"
    /\ call.fn = "generate_panel_blocks_by_ai"
    /\ contours' = sorted_boxes(contours, call.rtl_order)
    /\ pc' = "merge"
    /\ UNCHANGED <<call, ret, grouped, panels, thresholdCalls>>
    /\ UNCHANGED BatchVars
    /\ UNCHANGED ProcessVars

\* panel.py 401-403.
AiMergeNone ==
    /\ pc = "merge"
    /\ call.fn = "generate_panel_blocks_by_ai"
    /\ call.merge = "none"
    /\ panels' = ai_get_panels(call.image, contours)
    /\ pc' = "return"
    /\ UNCHANGED <<call, ret, contours, grouped, thresholdCalls>>
    /\ UNCHANGED BatchVars
    /\ UNCHANGED ProcessVars

\* panel.py 401, 404-405 and 408-409.
GroupBoxes ==
    /\ pc = "merge"
    /\ call.fn = "generate_panel_blocks_by_ai"
    /\ call.merge # "none"
    /\ panels' = fresh_panels(panels)
    /\ grouped' = IF call.merge = "horizontal"
                  THEN group_bounding_boxes_horizontally(contours)
                  ELSE group_bounding_boxes_vertically(contours)
    /\ pc' = "loop"
    /\ UNCHANGED <<call, ret, contours, thresholdCalls>>
    /\ UNCHANGED BatchVars
    /\ UNCHANGED ProcessVars

\* panel.py 406-407 and 410-411.
AiMergeGroup ==
    /\ pc = "loop"
    /\ call.fn = "generate_panel_blocks_by_ai"
    /\ grouped # <<>>
    /\ panels' = Append(panels,
                    IF call.merge = "horizontal"
                    THEN adaptive_hconcat(ai_get_panels(call.image, Head(grouped)))
                    ELSE adaptive_vconcat(ai_get_panels(call.image, Head(grouped))))
    /\ grouped' = Tail(grouped)
    /\ UNCHANGED <<call, pc, ret, contours, thresholdCalls>>
    /\ UNCHANGED BatchVars
    /\ UNCHANGED ProcessVars

NextPanels ==
    \/ FindContours
    \/ SortContours
    \/ MergeNone
    \/ GroupContours
    \/ MergeGroup
    \/ Detect
    \/ SortBoxes
    \/ AiMergeNone
    \/ GroupBoxes
    \/ AiMergeGroup
    \/ ReturnPanels

SpecPanels == InitPanels /\ [][NextPanels]_vars

(***************************************************************************)
(* Claims about generate_panel_blocks and generate_panel_blocks_by_ai.     *)
(***************************************************************************)
TraditionalDone == pc = "done" /\ call.fn = "generate_panel_blocks"

\* The number of primary contours of the page that pass the area filter.
PrimaryPassed == Cardinality(BigContours(call.primary_found, call.image))

\* What extract_panels gives for the primary contours, and what
\* threshold_extraction gives for the page.
PrimaryPanels ==
    extract_panels(call.image, contours, TRUE, call.mode, DEFAULT_FILL_IN_COLOR)

ThresholdPanels ==
    threshold_extraction(call.image, call.threshold_found, call.mode)

\* C1: with merge = NONE the result is the threshold-extraction result T when
\* fallback is enabled, |P| < 2 and |T| > |P|, and the primary list P
\* unchanged in every other case.
C1_FallbackReplaces ==
    (TraditionalDone /\ call.merge = "none") =>
        LET replaced == /\ call.fallback
                        /\ Len(PrimaryPanels) < 2
                        /\ Len(ThresholdPanels) > Len(PrimaryPanels)
        IN  /\ replaced => (ret = ThresholdPanels /\ ret # PrimaryPanels)
            /\ ~replaced => ret = PrimaryPanels

\* C1 witness: one primary panel, three threshold panels, three returned.
C1_Witness ==
    /\ TraditionalDone
    /\ call.merge = "none"
    /\ call.fallback
    /\ Len(PrimaryPanels) = 1
    /\ Len(ThresholdPanels) = 3
    /\ Len(ret) = 3

\* C2 (as claimed): the number of panels returned is at least 0 and at most
\* the number of primary contours that pass the area filter.
C2_AtMostPrimary ==
    TraditionalDone => (Len(ret) >= 0 /\ Len(ret) <= PrimaryPassed)

\* C2 (amended): the number of panels returned is at most the number of
\* primary contours that pass the area filter, except when the fallback
\* replaced the primary result (merge = NONE, fallback enabled, fewer than 2
\* primary contours, strictly more threshold panels): then it is the number
\* of threshold panels.
C2_AtMostPrimaryOrFallback ==
    TraditionalDone =>
        LET replaced == /\ call.merge = "none"
                        /\ call.fallback
                        /\ PrimaryPassed < 2
                        /\ Len(ThresholdPanels) > PrimaryPassed
        IN  /\ Len(ret) >= 0
            /\ replaced => Len(ret) = Len(ThresholdPanels)
            /\ ~replaced => Len(ret) <= PrimaryPassed

\* C2 witness: more panels were returned than primary contours passed.
C2_Witness ==
    /\ TraditionalDone
    /\ PrimaryPassed = 1
    /\ Len(ret) = 3

\* C3 (as claimed): threshold_extraction runs only when fallback is enabled
\* and the page as a whole has fewer than 2 primary contours.
C3_ThresholdOnlyForPage ==
    (call.fn = "generate_panel_blocks" /\ thresholdCalls > 0) =>
        (call.fallback /\ PrimaryPassed < 2)

\* When no panel is found: the contours of the page were searched (panel.py
\* 336: get_page_without_background has returned), no primary contour
\* passes the filter and the fallback is disabled or finds nothing; or the
\* detector returns no box.
NoPanelFound ==
    \/ /\ call.fn = "generate_panel_blocks"
       /\ ~page_raises(call)
       /\ PrimaryPassed = 0
       /\ ~call.fallback \/ ThresholdPanels = <<>>
    \/ /\ call.fn = "generate_panel_blocks_by_ai"
       /\ call.detect.loader = "ok"
       /\ ~call.detect.raises
       /\ call.detect.xyxy = <<>>

SortImage == Image(400, 600, 0)

\* The (x, y) corners of the boxes, each 150 wide; the last two do not sit on
\* the grid: one is a little lower in the first row, one lies across the rows.
SortCorners ==
    {<<5, 10, 150>>, <<400, 10, 150>>, <<5, 200, 150>>, <<400, 200, 150>>,
     <<200, 20, 120>>, <<200, 100, 150>>}

SortContourPool ==
    {RectContour(c[1], c[2], c[1] + 149, c[2] + c[3] - 1) : c \in SortCorners}

SortDetectionPool ==
    {Detection(10 * c[1] + 3, 10 * c[2] + 7,
               10 * (c[1] + 150) + 2, 10 * (c[2] + c[3]) + 9) : c \in SortCorners}

\* At most this many boxes are sorted.
MaxBoxes == 4

RECURSIVE SeqsNoRepeat(_, _)
\* The sequences of at most n distinct elements of S.
SeqsNoRepeat(S, n) ==
    IF n = 0 THEN {<<>>}
    ELSE LET shorter == SeqsNoRepeat(S, n - 1)
         IN  shorter \cup
                 UNION {{Append(s, x) : x \in S \ Range(s)} : s \in shorter}

SortCalls ==
    {[fn |-> "generate_panel_blocks", image |-> SortImage,
      background |-> [mask_area |-> 24000, pixels_now |-> 6000],
      split_joint_panels |-> s, primary_found |-> p, threshold_found |-> <<>>, fallback |-> FALSE,
      mode |-> "bounding", merge |-> "none", rtl_order |-> r] :
        s \in BOOLEAN, p \in SeqsNoRepeat(SortContourPool, MaxBoxes),
        r \in BOOLEAN}
    \cup
    {[fn |-> "generate_panel_blocks_by_ai", image |-> SortImage,
      detect |-> [loader |-> "ok", raises |-> FALSE, xyxy |-> d], merge |-> "none",
      rtl_order |-> r] :
        d \in SeqsNoRepeat(SortDetectionPool, MaxBoxes), r \in BOOLEAN}

InitSort ==
    /\ call \in SortCalls
    /\ pc = "start"
    /\ ret = "none"
    /\ PipelineIdle
    /\ BatchIdle
    /\ ProcessIdle

NextSort ==
    \/ FindContours
    \/ SortContours
    \/ Detect
    \/ SortBoxes

SpecSort == InitSort /\ [][NextSort]_vars

\* The boxes handed to the sorter, and the boxes in the order it produced.
BoxesIn ==
    IF call.fn = "generate_panel_blocks"
    THEN [i \in DOMAIN call.primary_found |-> boundingRect(call.primary_found[i])]
    ELSE detection_boxes(call.detect.xyxy)

BoxesOut ==
    IF call.fn = "generate_panel_blocks"
    THEN [i \in DOMAIN contours |-> boundingRect(contours[i])]
    ELSE contours

RowMates(a, b) ==
    LET overlap == Min(a.y + a.h, b.y + b.h) - Max(a.y, b.y)
    IN  overlap > 0 /\ 2 * overlap >= Min(a.h, b.h)

Above(a, b) == a.y + a.h <= b.y

\* The boxes form distinct visual rows: two boxes share a row or one lies
\* entirely above the other, and sharing a row is transitive.
DistinctVisualRows(boxes) ==
    /\ \A a, b \in Range(boxes) : RowMates(a, b) \/ Above(a, b) \/ Above(b, a)
    /\ \A a, b, c \in Range(boxes) :
           (RowMates(a, b) /\ RowMates(b, c)) => RowMates(a, c)

Corners(boxes) == [i \in DOMAIN boxes |-> <<boxes[i].x, boxes[i].y>>]

ExampleCorners == {<<5, 10>>, <<400, 10>>, <<5, 200>>, <<400, 200>>}

\* C5: for boxes that form distinct visual rows the order produced before
\* extraction is rows by ascending top and, within a row, ascending x (LTR)
\* or descending x (RTL), on both paths; the four boxes of the example come
\* out as stated.
C5_ReadingOrder ==
    (pc = "merge" /\ DistinctVisualRows(BoxesIn)) =>
        /\ Len(BoxesOut) = Len(BoxesIn)
        /\ Range(BoxesOut) = Range(BoxesIn)
        /\ \A i, j \in DOMAIN BoxesOut :
               i < j =>
                   IF RowMates(BoxesOut[i], BoxesOut[j])
                   THEN IF call.rtl_order
                        THEN BoxesOut[i].x >= BoxesOut[j].x
                        ELSE BoxesOut[i].x <= BoxesOut[j].x
                   ELSE Above(BoxesOut[i], BoxesOut[j])
        /\ Range(Corners(BoxesIn)) = ExampleCorners =>
               Corners(BoxesOut) =
                   IF call.rtl_order
                   THEN <<<<400, 10>>, <<5, 10>>, <<400, 200>>, <<5, 200>>>>
                   ELSE <<<<5, 10>>, <<400, 10>>, <<5, 200>>, <<400, 200>>>>

\* C5 witness: the four boxes of the example, found in another order, have
\* been sorted right to left on the traditional path.
C5_Witness ==
    /\ pc = "merge"
    /\ call.fn = "generate_panel_blocks"
    /\ call.rtl_order
    /\ Corners(BoxesIn) = <<<<5, 200>>, <<400, 200>>, <<5, 10>>, <<400, 10>>>>
    /\ Corners(BoxesOut) = <<<<400, 10>>, <<5, 10>>, <<400, 200>>, <<5, 200>>>>

(***************************************************************************)
(* The pixels of a panel (panel.py 112-119), channel by channel on 8 bits. *)
(***************************************************************************)
RECURSIVE BitAnd(_, _)
BitAnd(a, b) ==
    IF a = 0 \/ b = 0 THEN 0
    ELSE (a % 2) * (b % 2) + 2 * BitAnd(a \div 2, b \div 2)

RECURSIVE BitOr(_, _)
BitOr(a, b) ==
    IF a = 0 THEN b
    ELSE IF b = 0 THEN a
         ELSE Max(a % 2, b % 2) + 2 * BitOr(a \div 2, b \div 2)

BitNot(a) == 255 - a

\* cv2.bitwise_and / bitwise_or / bitwise_not on the three channels.
bitwise_and(p, q) == [k \in 1..3 |-> BitAnd(p[k], q[k])]

bitwise_or(p, q) == [k \in 1..3 |-> BitOr(p[k], q[k])]

bitwise_not(p) == [k \in 1..3 |-> BitNot(p[k])]

\* panel.py 113-114: zeros, with the contour filled in white.  Only the
\* pixels of the contour's bounding box are read.
ContourMask(contour, x, y) ==
    IF InsideContour(contour, x, y) THEN <<255, 255, 255>> ELSE <<0, 0, 0>>

PanelPixels_unfilled(image, panel) ==
    [r \in 0..(panel.h - 1), c \in 0..(panel.w - 1) |->
        IF panel.mode = "masked"
        THEN bitwise_and(Pixel(image, panel.y + r, panel.x + c),
                         ContourMask(panel.mask, panel.x + c, panel.y + r))
        ELSE Pixel(image, panel.y + r, panel.x + c)]

PanelPixels(image, panel) ==
    [r \in 0..(panel.h - 1), c \in 0..(panel.w - 1) |->
        IF panel.mode = "masked"
        THEN LET mask == ContourMask(panel.mask, panel.x + c, panel.y + r)
                 masked_image == bitwise_and(Pixel(image, panel.y + r,
                                                   panel.x + c), mask)
             IN  bitwise_or(bitwise_and(bitwise_not(mask), panel.fill),
                            masked_image)
        ELSE Pixel(image, panel.y + r, panel.x + c)]

(***************************************************************************)
(* extract_panels on small images, pixel by pixel.                         *)
(***************************************************************************)
ExtractHeight == 2

ExtractWidth == 2

\* At most this many contours are handed to extract_panels.
MaxExtract == 2

ExtractImages == {Image(ExtractHeight, ExtractWidth, s) : s \in {7, 200}}

\* Single pixels, diagonals, triangles and the whole image.
ExtractContours ==
    {[pts |-> <<Pt(x, y)>>] : x \in 0..(ExtractWidth - 1), y \in 0..(ExtractHeight - 1)}
    \cup {[pts |-> <<Pt(x, y), Pt(x + 1, y + 1)>>] :
            x \in 0..(ExtractWidth - 2), y \in 0..(ExtractHeight - 2)}
    \cup {[pts |-> <<Pt(x, y), Pt(x, y + 1), Pt(x + 1, y)>>] :
            x \in 0..(ExtractWidth - 2), y \in 0..(ExtractHeight - 2)}
    \cup {RectContour(0, 0, ExtractWidth - 1, ExtractHeight - 1)}

FillColors == {DEFAULT_FILL_IN_COLOR, <<60, 120, 200>>}

ExtractCalls ==
    {[fn |-> "extract_panels", image |-> i, panel_contours |-> cs,
      accept_page_as_panel |-> a, mode |-> m, fill_in_color |-> f] :
        i \in ExtractImages, cs \in SeqsNoRepeat(ExtractContours, MaxExtract),
        a \in BOOLEAN, m \in OutputModes, f \in FillColors}

InitExtract ==
    /\ call \in ExtractCalls
    /\ pc = "call"
    /\ ret = "none"
    /\ PipelineIdle
    /\ BatchIdle
    /\ ProcessIdle

\* extract_panels returns the list of the panels' pixel arrays.
ApplyExtractPanels ==
    /\ pc = "call"
    /\ call.fn = "extract_panels"
    /\ ret' = LET found == extract_panels(call.image, call.panel_contours,
                               call.accept_page_as_panel, call.mode,
                               call.fill_in_color)
              IN  [i \in DOMAIN found |-> PanelPixels(call.image, found[i])]
    /\ pc' = "done"
    /\ UNCHANGED <<call, contours, grouped, panels, thresholdCalls>>
    /\ UNCHANGED BatchVars
    /\ UNCHANGED ProcessVars

NextExtract == ApplyExtractPanels

SpecExtract == InitExtract /\ [][NextExtract]_vars

\* The contours extract_panels makes a panel of, in their order.
PanelContours ==
    SelectSeqBy(call.panel_contours,
        {c \in Range(call.panel_contours) :
            \/ call.accept_page_as_panel
            \/ /\ boundingRect(c).w * 100 < call.image.width * 99
               /\ boundingRect(c).h * 100 < call.image.height * 99})

\* C6: every pixel of a contour's panel equals, in masked mode, the source
\* pixel when it lies inside or on the contour and fill_in_color when it lies
\* outside; in bounding mode it equals the pixel of the plain crop
\* image[y:y+h, x:x+w].
C6_PanelPixels ==
    (pc = "done" /\ call.fn = "extract_panels") =>
        /\ Len(ret) = Len(PanelContours)
        /\ \A i \in DOMAIN ret :
              LET box == boundingRect(PanelContours[i])
              IN  /\ DOMAIN ret[i] = (0..(box.h - 1)) \X (0..(box.w - 1))
                  /\ \A r \in 0..(box.h - 1), c \in 0..(box.w - 1) :
                         ret[i][r, c] =
                             IF call.mode = "masked"
                                /\ ~InsideContour(PanelContours[i],
                                                  box.x + c, box.y + r)
                             THEN call.fill_in_color
                             ELSE Pixel(call.image, box.y + r, box.x + c)

\* C6 witness: a masked panel of a triangle holds a filled exterior pixel
\* and a source pixel.
C6_Witness ==
    /\ pc = "done"
    /\ call.fn = "extract_panels"
    /\ call.mode = "masked"
    /\ call.fill_in_color = <<60, 120, 200>>
    /\ Len(ret) >= 1
    /\ PanelContours[1] = [pts |-> <<Pt(0, 0), Pt(0, 1), Pt(1, 0)>>]
    /\ ret[1][1, 1] = <<60, 120, 200>>
    /\ ret[1][0, 0] = Pixel(call.image, 0, 0)

(***************************************************************************)
(* The batch drivers: process_images (app.py 30-170) and the folder        *)
(* functions (panel.py 438-485).  A page is the place where its processing *)
(* fails, if it does.                                                      *)
(***************************************************************************)
\* process_images: "name" raises at app.py 66, "read" at 71, "generate" at
\* 81-94 (with the AI method: once the detector has been called, panel.py
\* 380-413), "encode" at 130, "open" at 135 (no file is made), "write" at
\* 136 (the file is made); an "undecodable" page makes cv2.imdecode return
\* None (app.py 75-77).  With the AI method a page may also come with a
\* loader that fails if the page's call of the detector runs it.
WebPageFaults ==
    {"none", "name", "read", "undecodable", "generate", "encode", "open",
     "write"}

\* The folder functions: "generate" raises at panel.py 457 / 480 (by AI:
\* once the detector has been called), "write" at 460 / 483.
FolderPageFaults == {"none", "generate", "write"}

\* app.py 80 and 89: the `method` of the web UI's radio button.
Methods == {"Traditional", "AI"}

FolderDrivers ==
    {"extract_panels_for_images_in_folder",
     "extract_panels_for_images_in_folder_by_ai"}

\* At most this many pages are in a batch.
MaxPages == 2

\* How many panels the generator finds on each page of a folder.
PanelCounts == {0, 1, 3}

\* How many entries of input_dir the loader yields no image for (a
\* sub-directory, a text file).
OtherEntries == {0, 1}

RECURSIVE SeqsUpTo(_, _)
\* The non-empty sequences of at most n elements of S.
SeqsUpTo(S, n) ==
    IF n = 0 THEN {}
    ELSE SeqsUpTo(S, n - 1) \cup [1..n -> S]

\* The batches of at most MaxPages pages, the empty one included.
Batches(faults) == {<<>>} \cup SeqsUpTo(faults, MaxPages)

\* The faults a page of the call may come with.
PageFaultsOf(fn, method) ==
    IF fn = "process_images"
    THEN IF method = "AI" THEN WebPageFaults \cup LoaderFaults
         ELSE WebPageFaults
    ELSE IF fn = "extract_panels_for_images_in_folder_by_ai"
         THEN FolderPageFaults \cup LoaderFaults
         ELSE FolderPageFaults

\* zip_fails: shutil.make_archive (app.py 153-157) raises.
BatchCalls ==
    UNION {{[fn |-> "process_images", method |-> m, pages |-> p,
             separate_folders |-> s, zip_fails |-> z] :
                p \in Batches(PageFaultsOf("process_images", m)),
                s \in BOOLEAN, z \in BOOLEAN} : m \in Methods}
    \cup UNION {{[fn |-> f, pages |-> p, output_dir_exists |-> e,
                  panels_per_page |-> n, other_entries |-> o] :
                     p \in Batches(PageFaultsOf(f, "")),
                     e \in BOOLEAN, n \in PanelCounts, o \in OtherEntries} :
                 f \in FolderDrivers}

PipelineVars == <<contours, grouped, panels, thresholdCalls>>

InitBatch ==
    /\ call \in BatchCalls
    /\ pc = "start"
    /\ ret = "none"
    /\ PipelineIdle
    /\ BatchIdle
    /\ ProcessIdle

\* app.py 165-170: what the finally clause leaves of panel_output_dir.
cleaned_up_on_return(dir, outcome) ==
    IF dir \in {"empty", "nonempty"} /\ outcome = "final_zip_path"
    THEN "removed" ELSE dir

cleaned_up(dir, outcome) ==
    IF dir \in {"empty", "nonempty"} THEN "removed" ELSE dir

\* Whether the page leaves an entry in panel_output_dir: its sub-folder
\* (app.py 105-108, made before the panels are encoded) or the file of its
\* first panel (app.py 135).
leaves_entry(fault, separate_folders) ==
    \/ fault \in {"none", "write"}
    \/ separate_folders /\ fault \in {"encode", "open"}

\* app.py 89-94 and panel.py 480: the page is handed to
\* generate_panel_blocks_by_ai, which calls the detector (panel.py 380).
detector_called(c, fault) ==
    /\ \/ c.fn = "process_images" /\ c.method = "AI"
       \/ c.fn = "extract_panels_for_images_in_folder_by_ai"
    /\ fault \notin {"name", "read", "undecodable"}

\* The `model` object after the page, and the exception its call raised.
page_model(c, fault, m, imp, n) ==
    IF detector_called(c, fault)
    THEN loaded_by_call(m, imp, n, fault)
    ELSE [model |-> m, imported |-> imp, loads |-> n, error |-> ""]

\* Where the page's processing fails: in the generator when the detector's
\* call raised; nowhere when the page's loader was not needed or the method
\* has no detector.
page_fault(fault, error) ==
    IF error # "" THEN "generate"
    ELSE IF fault \in LoaderFaults THEN "none" ELSE fault

\* app.py 49-61: gr.Error when input_files is empty; else the output folder
\* and the temporary panel directory of this run are created.
ProcessImagesStart ==
    /\ pc = "start"
    /\ call.fn = "process_images"
    /\ IF call.pages = <<>>
       THEN pc' = "raised" /\ ret' = "gr.Error" /\ tempDir' = tempDir
       ELSE pc' = "loop" /\ ret' = ret /\ tempDir' = "empty"
    /\ UNCHANGED <<call, pageIdx, attempted, nameBound>>
    /\ UNCHANGED PipelineVars
    /\ UNCHANGED ProcessVars

\* app.py 63-141: one iteration of `for image_file in ...`.  An exception
\* raised in the body is caught at 138; the handler prints
\* original_filename, which is bound only once line 66 has succeeded for
\* this page or an earlier one: otherwise the handler itself raises
\* (UnboundLocalError), the loop is left and the finally clause runs.
ProcessImagesPage ==
    /\ pc = "loop"
    /\ call.fn = "process_images"
    /\ pageIdx < Len(call.pages)
    /\ LET m == page_model(call, call.pages[pageIdx + 1], model, imported,
                           loads)
           fault == page_fault(call.pages[pageIdx + 1], m.error)
       IN  /\ attempted' = attempted \cup {pageIdx + 1}
           /\ nameBound' = (nameBound \/ fault # "name")
           /\ model' = m.model
           /\ imported' = m.imported
           /\ loads' = m.loads
           /\ tempDir' = IF leaves_entry(fault, call.separate_folders)
                         THEN "nonempty" ELSE tempDir
           /\ IF fault = "name" /\ ~nameBound
              THEN pc' = "finally" /\ pageIdx' = pageIdx /\ ret' = "UnboundLocalError"
              ELSE pc' = pc /\ pageIdx' = pageIdx + 1 /\ ret' = ret
    /\ UNCHANGED call
    /\ UNCHANGED PipelineVars
    /\ UNCHANGED <<PosixPath, threads, earlier>>

\* app.py 143-163: after the loop, gr.Error when panel_output_dir holds no
\* entry; else the ZIP file is made, which may raise, and its path is
\* returned.  In each case the finally clause runs next.
ProcessImagesFinish ==
    /\ pc = "loop"
    /\ call.fn = "process_images"
    /\ pageIdx = Len(call.pages)
    /\ pc' = "finally"
    /\ ret' = IF tempDir = "empty" THEN "gr.Error"
              ELSE IF call.zip_fails THEN "OSError" ELSE "final_zip_path"
    /\ UNCHANGED <<call, pageIdx, attempted, nameBound, tempDir>>
    /\ UNCHANGED PipelineVars
    /\ UNCHANGED ProcessVars

\* app.py 165-170: the finally clause removes the temporary panel directory
\* if it exists; then the function returns the path or the exception goes
\* on to the caller.
ProcessImagesFinally ==
    /\ pc = "finally"
    /\ call.fn = "process_images"
    /\ tempDir' = cleaned_up(tempDir, ret)
    /\ pc' = IF ret = "final_zip_path" THEN "done" ELSE "raised"
    /\ UNCHANGED <<call, ret, pageIdx, attempted, nameBound>>
    /\ UNCHANGED PipelineVars
    /\ UNCHANGED ProcessVars

\* panel.py 450-454 and 473-477: (0, 0) is returned when output_dir does not
\* exist.
FolderStart ==
    /\ pc = "start"
    /\ call.fn \in FolderDrivers
    /\ IF call.output_dir_exists
       THEN pc' = "loop" /\ ret' = ret
       ELSE pc' = "done" /\ ret' = <<0, 0>>
    /\ UNCHANGED <<call, pageIdx, attempted, nameBound, tempDir>>
    /\ UNCHANGED PipelineVars
    /\ UNCHANGED ProcessVars

\* Whether the page's processing raises in a folder function: cv2.imwrite
\* is called only for a page with panels.
folder_page_raises(fault, panels_per_page) ==
    \/ fault = "generate"
    \/ fault = "write" /\ panels_per_page > 0

\* panel.py 455-461 and 478-484: one iteration of `for _, image in ...`; the
\* body is in no try block, so an exception leaves the function.
FolderPage ==
    /\ pc = "loop"
    /\ call.fn \in FolderDrivers
    /\ pageIdx < Len(call.pages)
    /\ attempted' = attempted \cup {pageIdx + 1}
    /\ LET m == page_model(call, call.pages[pageIdx + 1], model, imported,
                           loads)
           fault == page_fault(call.pages[pageIdx + 1], m.error)
       IN  /\ model' = m.model
           /\ imported' = m.imported
           /\ loads' = m.loads
           /\ IF folder_page_raises(fault, call.panels_per_page)
              THEN pc' = "raised" /\ pageIdx' = pageIdx /\ ret' = "Exception"
              ELSE pc' = pc /\ pageIdx' = pageIdx + 1 /\ ret' = ret
    /\ UNCHANGED <<call, nameBound, tempDir>>
    /\ UNCHANGED PipelineVars
    /\ UNCHANGED <<PosixPath, threads, earlier>>

\* panel.py 462 and 485: return (num_files, num_panels): num_files is the
\* number of entries of input_dir (452-453 / 475-476), num_panels the sum of
\* len(panel_blocks) over the pages (461 / 484).
FolderFinish ==
    /\ pc = "loop"
    /\ call.fn \in FolderDrivers
    /\ pageIdx = Len(call.pages)
    /\ pc' = "done"
    /\ ret' = <<Len(call.pages) + call.other_entries,
                pageIdx * call.panels_per_page>>
    /\ UNCHANGED <<call, pageIdx, attempted, nameBound, tempDir>>
    /\ UNCHANGED PipelineVars
    /\ UNCHANGED ProcessVars

NextBatch ==
    \/ ProcessImagesStart
    \/ ProcessImagesPage
    \/ ProcessImagesFinish
    \/ ProcessImagesFinally
    \/ FolderStart
    \/ FolderPage
    \/ FolderFinish

SpecBatch == InitBatch /\ [][NextBatch]_vars

\* The driver went into its loop over the pages.
LoopEntered == call.fn = "process_images" \/ call.output_dir_exists

\* C8 (as claimed): in every batch driver a failure raised while processing
\* one page does not abort the batch: when the driver has returned or
\* raised, every page of the input has been processed.
C8_EveryPageProcessed ==
    (pc \in {"done", "raised"} /\ LoopEntered) =>
        attempted = DOMAIN call.pages

\* C17: for every execution of process_images that created its temporary
\* panel directory, the directory no longer exists once process_images has
\* returned or raised: ZIP created, no panels extracted (gr.Error), or an
\* exception while zipping or in the page loop.
C17_TempDirRemoved ==
    (/\ call.fn = "process_images"
     /\ call.pages # <<>>
     /\ pc \in {"done", "raised"}) =>
        /\ tempDir = "removed"
        /\ ret \in {"final_zip_path", "gr.Error", "OSError", "UnboundLocalError"}

\* C17 witness: the directory was created, a page wrote its panels, making
\* the ZIP file raised, and the directory is gone.
C17_Witness ==
    /\ call.fn = "process_images"
    /\ call.zip_fails
    /\ pc = "raised"
    /\ ret = "OSError"
    /\ attempted = DOMAIN call.pages
    /\ tempDir = "removed"

(***************************************************************************)
(* The binarisation threshold of generate_background_mask                  *)
(* (panel.py 29-52).  A grayscale image is its size and its 8-bit pixels   *)
(* px[row, col].                                                           *)
(***************************************************************************)
RECURSIVE SeqSum(_)
SeqSum(s) == IF s = <<>> THEN 0 ELSE Head(s) + SeqSum(Tail(s))

\* panel.py 33: the bottom row, the top row, the left and the right column.
Edges(g) ==
    <<[c \in 1..g.width  |-> g.px[g.height - 1, c - 1]],
      [c \in 1..g.width  |-> g.px[0, c - 1]],
      [r \in 1..g.height |-> g.px[r - 1, 0]],
      [r \in 1..g.height |-> g.px[r - 1, g.width - 1]]>>

\* The variance of an edge of n pixels is (n * sum(x^2) - sum(x)^2) / n^2:
\* this is that variance, exact, times scale^2, an integer when n divides
\* scale.
ScaledVariance(edge, scale) ==
    LET n == Len(edge)
        squares == [i \in DOMAIN edge |-> edge[i] * edge[i]]
    IN  (n * SeqSum(squares) - SeqSum(edge) * SeqSum(edge))
            * (scale \div n) * (scale \div n)

\* uint8 - int: exact under NumPy 1 (promotion to int64), modulo 256 under
\* NumPy 2 (the Python int is cast to uint8).
Uint8Minus(a, b, numpy_wraps) == IF numpy_wraps THEN (a - b) % 256 ELSE a - b

(***************************************************************************)
(* float64 arithmetic, for np.var (panel.py 34).  A natural number of any  *)
(* size is the sequence of its digits in base 2^15, the lowest first,      *)
(* without a leading zero.  A non-negative float64 is m * 2^e, m of 53     *)
(* bits at most; the numbers here are far from the ends of the exponent    *)
(* range.  The operations are functions, so that an argument is computed   *)
(* once.                                                                   *)
(***************************************************************************)
Base == 2^15

Big == Seq(Nat)

Flt == [m : Big, e : Int]

BigTrim[a \in Big] ==
    IF a # <<>> /\ a[Len(a)] = 0 THEN BigTrim[SubSeq(a, 1, Len(a) - 1)] ELSE a

BigOfInt[k \in Nat] ==
    IF k = 0 THEN <<>> ELSE <<k % Base>> \o BigOfInt[k \div Base]

BigAddC[a \in Big, b \in Big, carry \in Nat] ==
    IF a = <<>> /\ b = <<>> THEN (IF carry = 0 THEN <<>> ELSE <<carry>>)
    ELSE LET x == (IF a = <<>> THEN 0 ELSE Head(a))
                      + (IF b = <<>> THEN 0 ELSE Head(b)) + carry
         IN  <<x % Base>> \o BigAddC[IF a = <<>> THEN <<>> ELSE Tail(a),
                                     IF b = <<>> THEN <<>> ELSE Tail(b),
                                     x \div Base]

BigAdd[a \in Big, b \in Big] == BigAddC[a, b, 0]

BigSubB[a \in Big, b \in Big, borrow \in Nat] ==
    IF a = <<>> THEN <<>>
    ELSE LET x == Head(a) - (IF b = <<>> THEN 0 ELSE Head(b)) - borrow
         IN  <<(x + Base) % Base>>
                 \o BigSubB[Tail(a), IF b = <<>> THEN <<>> ELSE Tail(b),
                            IF x < 0 THEN 1 ELSE 0]

\* a - b for a >= b.
BigSub[a \in Big, b \in Big] == BigTrim[BigSubB[a, b, 0]]

BigCmpAt[a \in Big, b \in Big, i \in Nat] ==
    IF i = 0 THEN 0
    ELSE IF a[i] # b[i] THEN (IF a[i] < b[i] THEN -1 ELSE 1)
         ELSE BigCmpAt[a, b, i - 1]

\* -1, 0 or 1 as a is less than, equal to or greater than b.
BigCmp[a \in Big, b \in Big] ==
    IF Len(a) # Len(b) THEN (IF Len(a) < Len(b) THEN -1 ELSE 1)
    ELSE BigCmpAt[a, b, Len(a)]

BigMulSmallC[a \in Big, k \in Nat, carry \in Nat] ==
    IF a = <<>> THEN (IF carry = 0 THEN <<>> ELSE <<carry>>)
    ELSE LET x == Head(a) * k + carry
         IN  <<x % Base>> \o BigMulSmallC[Tail(a), k, x \div Base]

BigMulRows[a \in Big, b \in Big] ==
    IF b = <<>> THEN <<>>
    ELSE BigAdd[BigMulSmallC[a, Head(b), 0], <<0>> \o BigMulRows[a, Tail(b)]]

BigMul[a \in Big, b \in Big] == BigTrim[BigMulRows[a, b]]

\* The digits of the quotient of a by n, 0 < n < 2^15, after its remainder:
\* the digits a[i] .. a[1] are divided, r is the remainder so far.
BigDivAt[a \in Big, n \in Nat, i \in Nat, r \in Nat] ==
    IF i = 0 THEN <<r>>
    ELSE Append(BigDivAt[a, n, i - 1, (r * Base + a[i]) % n],
                (r * Base + a[i]) \div n)

BigDivSmall[a \in Big, n \in Nat] == BigDivAt[a, n, Len(a), 0]

BitLen[k \in Nat] == IF k = 0 THEN 0 ELSE 1 + BitLen[k \div 2]

BigBitLen[a \in Big] ==
    IF a = <<>> THEN 0 ELSE 15 * (Len(a) - 1) + BitLen[a[Len(a)]]

Zeros[k \in Nat] == IF k = 0 THEN <<>> ELSE <<0>> \o Zeros[k - 1]

\* a * 2^s, and the floor of a / 2^s.
BigShl[a \in Big, s \in Nat] ==
    IF a = <<>> THEN <<>>
    ELSE Zeros[s \div 15] \o BigMulSmallC[a, 2^(s % 15), 0]

BigShr[a \in Big, s \in Nat] ==
    IF Len(a) <= s \div 15 THEN <<>>
    ELSE BigTrim[Tail(BigDivSmall[SubSeq(a, (s \div 15) + 1, Len(a)),
                                  2^(s % 15)])]

FltZero == [m |-> <<>>, e |-> 0]

FltOfInt[k \in Nat] == [m |-> BigOfInt[k], e |-> 0]

\* m * 2^e, m of more than 53 bits, rounded: q is m without its last s
\* bits; it is raised by one when the bits left out are more than half a
\* unit of q (or more than nothing was left out below them: sticky), or
\* half a unit and q is odd.
FltRoundTo[m \in Big, e \in Int, sticky \in BOOLEAN, s \in Nat, q \in Big] ==
    LET c  == BigCmp[BigSub[m, BigShl[q, s]], BigShl[<<1>>, s - 1]]
        up == c > 0 \/ (c = 0 /\ (sticky \/ q[1] % 2 = 1))
    IN  [m |-> IF up THEN BigAdd[q, <<1>>] ELSE q, e |-> e + s]

\* The float64 nearest to m * 2^e, ties to the even mantissa.
FltRound[m \in Big, e \in Int, sticky \in BOOLEAN] ==
    IF BigBitLen[m] <= 53 THEN [m |-> m, e |-> e]
    ELSE FltRoundTo[m, e, sticky, BigBitLen[m] - 53,
                    BigShr[m, BigBitLen[m] - 53]]

\* float64 a + b, |a - b|, a * b, a / n for an integer n, and a < b.
FltAdd[a \in Flt, b \in Flt] ==
    IF a.m = <<>> THEN b
    ELSE IF b.m = <<>> THEN a
    ELSE LET e == Min(a.e, b.e)
         IN  FltRound[BigAdd[BigShl[a.m, a.e - e], BigShl[b.m, b.e - e]], e,
                      FALSE]

BigAbsSub[a \in Big, b \in Big] ==
    IF BigCmp[a, b] >= 0 THEN BigSub[a, b] ELSE BigSub[b, a]

FltAbsSub[a \in Flt, b \in Flt] ==
    IF a.m = <<>> THEN b
    ELSE IF b.m = <<>> THEN a
    ELSE LET e == Min(a.e, b.e)
         IN  FltRound[BigAbsSub[BigShl[a.m, a.e - e], BigShl[b.m, b.e - e]],
                      e, FALSE]

FltMul[a \in Flt, b \in Flt] == FltRound[BigMul[a.m, b.m], a.e + b.e, FALSE]

FltDivRound[d \in Big, e \in Int] == FltRound[BigTrim[Tail(d)], e, Head(d) # 0]

FltDivInt[a \in Flt, n \in Nat] ==
    IF a.m = <<>> THEN a
    ELSE FltDivRound[BigDivSmall[BigShl[a.m, 75], n], a.e - 75]

FltLess[a \in Flt, b \in Flt] ==
    IF b.m = <<>> THEN FALSE
    ELSE IF a.m = <<>> THEN TRUE
    ELSE LET e == Min(a.e, b.e)
         IN  BigCmp[BigShl[a.m, a.e - e], BigShl[b.m, b.e - e]] < 0

\* NumPy's sum of a float64 array (pairwise summation): fewer than 8
\* numbers are added one after the other; up to 128 numbers are added in 8
\* interleaved partial sums, which are added in pairs, and the numbers past
\* the last full block of 8 are added to that; a longer array is split in
\* two parts, the first a multiple of 8 long.
SumFrom[a \in Seq(Flt), i \in Nat, res \in Flt] ==
    IF i > Len(a) THEN res ELSE SumFrom[a, i + 1, FltAdd[res, a[i]]]

Strided[a \in Seq(Flt), i \in Nat, last \in Nat, res \in Flt] ==
    IF i > last THEN res ELSE Strided[a, i + 8, last, FltAdd[res, a[i]]]

pairwise_sum[a \in Seq(Flt)] ==
    LET n == Len(a)
    IN  IF n < 8 THEN SumFrom[a, 1, FltZero]
        ELSE IF n <= 128
        THEN LET full == n - (n % 8)
                 r(j) == Strided[a, 8 + j, full, a[j]]
             IN  SumFrom[a, full + 1,
                     FltAdd[FltAdd[FltAdd[r(1), r(2)], FltAdd[r(3), r(4)]],
                            FltAdd[FltAdd[r(5), r(6)], FltAdd[r(7), r(8)]]]]
        ELSE LET half == n \div 2
                 n2   == half - (half % 8)
             IN  FltAdd[pairwise_sum[SubSeq(a, 1, n2)],
                        pairwise_sum[SubSeq(a, n2 + 1, n)]]

Square[d \in Flt] == FltMul[d, d]

\* panel.py 34, inside np.var: (x - arrmean) ** 2 for the elements from the
\* i-th on.
SquaredDeviations[x \in Seq(Nat), arrmean \in Flt, i \in Nat] ==
    IF i > Len(x) THEN <<>>
    ELSE <<Square[FltAbsSub[FltOfInt[x[i]], arrmean]]>>
             \o SquaredDeviations[x, arrmean, i + 1]

\* np.var of an array of 8-bit integers, in float64 as NumPy computes it:
\* the mean is the sum (exact) divided by the count; the differences to the
\* mean are squared, summed, and the sum is divided by the count; every
\* operation rounds.
np_var[x \in Seq(Nat)] ==
    FltDivInt[pairwise_sum[SquaredDeviations[
                  x, FltDivInt[FltOfInt[SeqSum(x)], Len(x)], 1]], Len(x)]

\* The first of the keys than which none is smaller.
FirstLeast[var \in Seq(Flt)] ==
    LET least(i) == \A j \in DOMAIN var : ~FltLess[var[j], var[i]]
    IN  CHOOSE i \in DOMAIN var : least(i) /\ \A j \in 1..(i - 1) : ~least(j)

\* panel.py 33-36: sorted(edges, key=np.var)[0].  The sort is stable: the
\* first of the edges than which none has a smaller np.var.
least_varied_edge(g) ==
    Edges(g)[FirstLeast[<<np_var[Edges(g)[1]], np_var[Edges(g)[2]],
                          np_var[Edges(g)[3]], np_var[Edges(g)[4]]>>]]

get_background_intensity_range_max(g, min_range, numpy_wraps) ==
    LET edge == least_varied_edge(g)
        max_intensity == SetMax(Range(edge))
        min_intensity ==
            Max(Max(SetMin(Range(edge)),
                    Uint8Minus(max_intensity, min_range, numpy_wraps)), 0)
    IN  <<min_intensity, max_intensity>>

get_background_intensity_range(g, min_range, numpy_wraps) ==
    LET edge == least_varied_edge(g)
        max_intensity == SetMax(Range(edge))
        min_intensity ==
            Max(Min(SetMin(Range(edge)),
                    Uint8Minus(max_intensity, min_range, numpy_wraps)), 0)
    IN  <<min_intensity, max_intensity>>

BACKGROUND_MIN_RANGE == 25

LESS_WHITE_FLOOR == 240

\* panel.py 49-50: the threshold handed to cv2.threshold at line 52.
less_white(g, numpy_wraps) ==
    Max(get_background_intensity_range(g, BACKGROUND_MIN_RANGE, numpy_wraps)[1],
        LESS_WHITE_FLOOR)

BackgroundHeight == 2

BackgroundWidth == 2

BackgroundPixelValues == {10, 245, 255}

BackgroundCalls ==
    {[fn |-> "generate_background_mask",
      grayscale_image |-> [height |-> BackgroundHeight,
                           width |-> BackgroundWidth, px |-> f],
      numpy_wraps |-> n] :
        f \in [(0..(BackgroundHeight - 1)) \X (0..(BackgroundWidth - 1))
                  -> BackgroundPixelValues],
        n \in BOOLEAN}

InitBackground ==
    /\ call \in BackgroundCalls
    /\ pc = "call"
    /\ ret = "none"
    /\ PipelineIdle
    /\ BatchIdle
    /\ ProcessIdle

ComputeLessWhite ==
    /\ pc = "call"
    /\ call.fn = "generate_background_mask"
    /\ ret' = less_white(call.grayscale_image, call.numpy_wraps)
    /\ pc' = "done"
    /\ UNCHANGED call
    /\ UNCHANGED PipelineVars
    /\ UNCHANGED BatchVars
    /\ UNCHANGED ProcessVars

NextBackground == ComputeLessWhite

SpecBackground == InitBackground /\ [][NextBackground]_vars

\* The border lines of the image with the lowest pixel variance.
LeastVariedEdges ==
    LET edges == Range(Edges(call.grayscale_image))
        scale == call.grayscale_image.height * call.grayscale_image.width
    IN  {e \in edges :
            \A other \in edges :
                ScaledVariance(e, scale) <= ScaledVariance(other, scale)}

BackgroundDone == pc = "done" /\ call.fn = "generate_background_mask"

\* C9 (as claimed): the threshold equals
\* max(240, max(min(edge), max(edge) - 25, 0)) for the least varied edge.
C9_MaxOfThree ==
    BackgroundDone =>
        \E e \in LeastVariedEdges :
            ret = Max(240, Max(Max(SetMin(Range(e)), SetMax(Range(e)) - 25), 0))

\* C9 (amended): the threshold equals
\* max(240, max(min(min(edge), max(edge) - 25), 0)) in ordinary integer
\* arithmetic for the least varied edge, and lies in 240..255.
C9_MinThenMax ==
    BackgroundDone =>
        /\ \E e \in LeastVariedEdges :
               ret = Max(240, Max(Min(SetMin(Range(e)), SetMax(Range(e)) - 25), 0))
        /\ ret \in 240..255

\* C9 witness: a threshold was computed for an image whose least varied edge
\* is dark (max(edge) - 25 is negative), with uint8 arithmetic that wraps.
C9_Witness ==
    /\ BackgroundDone
    /\ call.numpy_wraps
    /\ \E e \in LeastVariedEdges : Range(e) = {10}
    /\ \E r \in 0..(BackgroundHeight - 1), c \in 0..(BackgroundWidth - 1) :
           call.grayscale_image.px[r, c] = 255
    /\ ret = 240

(***************************************************************************)
(* get_page_without_background (panel.py 273-287) and                      *)
(* joint_panel_split_extraction (panel.py 146-241).  An outcome is the     *)
(* function that made the page, its pixels, and whether it raised.         *)
(***************************************************************************)
\* np.count_nonzero.
count_nonzero(m) == Cardinality({p \in DOMAIN m.px : m.px[p] # 0})

\* cv2.subtract on 8-bit images: saturating.
subtract(g, m) ==
    [by |-> "subtract", raised |-> FALSE,
     px |-> [p \in DOMAIN g.px |-> Max(g.px[p] - m.px[p], 0)]]

\* A sub-iteration of cv2.ximgproc.thinning (Zhang-Suen): a pixel off the
\* border is removed when its neighbours have one 0-1 transition, two to six
\* of them are set, and P2 * P4 * P6 = 0 and P4 * P6 * P8 = 0 (iter 0) or
\* P2 * P4 * P8 = 0 and P2 * P6 * P8 = 0 (iter 1).  P2 .. P9 are the
\* neighbours of the pixel, clockwise from the one above it.
thinningIteration(img, h, w, iter) ==
    LET Neighbours ==
            <<<<-1, 0>>, <<-1, 1>>, <<0, 1>>, <<1, 1>>, <<1, 0>>, <<1, -1>>,
              <<0, -1>>, <<-1, -1>>>>
        P(p, k) == IF <<p[1] + Neighbours[k][1], p[2] + Neighbours[k][2]>> \in img
                   THEN 1 ELSE 0
        A(p)  == Cardinality({k \in 1..8 : P(p, k) = 0 /\ P(p, (k % 8) + 1) = 1})
        B(p)  == Cardinality({k \in 1..8 : P(p, k) = 1})
        m1(p) == IF iter = 0 THEN P(p, 1) * P(p, 3) * P(p, 5)
                 ELSE P(p, 1) * P(p, 3) * P(p, 7)
        m2(p) == IF iter = 0 THEN P(p, 3) * P(p, 5) * P(p, 7)
                 ELSE P(p, 1) * P(p, 5) * P(p, 7)
        marker == {p \in img :
                     /\ p[1] \in 1..(h - 2)
                     /\ p[2] \in 1..(w - 2)
                     /\ A(p) = 1
                     /\ B(p) \in 2..6
                     /\ m1(p) = 0
                     /\ m2(p) = 0}
    IN  img \ marker

\* cv2.ximgproc.thinning (panel.py 151): the two sub-iterations are repeated
\* until the image changes no more.
RECURSIVE thinning(_, _, _)
thinning(img, h, w) ==
    LET processed == thinningIteration(thinningIteration(img, h, w, 0), h, w, 1)
    IN  IF processed = img THEN img ELSE thinning(processed, h, w)

\* panel.py 153-161 and 198-207: the 3 x 3 templates by the (row, column) of
\* their ones, in the order of match_kernels: up, down, left, right,
\* down_right, down_left, up_left, up_right.
match_kernels ==
    <<{<<1, 1>>, <<2, 1>>}, {<<0, 1>>, <<1, 1>>}, {<<1, 1>>, <<1, 2>>},
      {<<1, 0>>, <<1, 1>>}, {<<0, 0>>, <<1, 1>>}, {<<0, 2>>, <<1, 1>>},
      {<<1, 1>>, <<2, 2>>}, {<<1, 1>>, <<2, 0>>}>>

PAGE_TO_JOINT_OBJECT_RATIO == 3

\* panel.py 166 and 169.
height_based_size(image_height) ==
    LET size == image_height \div PAGE_TO_JOINT_OBJECT_RATIO
    IN  size + (size % 2) + 1

\* panel.py 167 and 170.
width_based_size(image_width) ==
    LET size == (2 * image_width) \div PAGE_TO_JOINT_OBJECT_RATIO
    IN  size + (size % 2) + 1

\* panel.py 184.
min_based_size(image_height, image_width) ==
    Min(width_based_size(image_width), height_based_size(image_height))

\* panel.py 172-196 and 209-218: the square kernels of the line extensions
\* by their side and the (row, column) of their ones, in the order of
\* dilation_kernels.  The diagonals of down_right and down_left start in the
\* first row and end in the centre; those of up_left and up_right start in
\* the row of the centre and end in the last row, up_left's in the first
\* column (np.pad puts its columns after the identity) and up_right's in
\* the centre column.
dilation_kernels(image_height, image_width) ==
    LET hb == height_based_size(image_height)
        wb == width_based_size(image_width)
        mb == min_based_size(image_height, image_width)
        a  == mb \div 2
    IN  <<[size |-> hb, ones |-> {<<r, hb \div 2>> : r \in (hb \div 2)..(hb - 1)}],
          [size |-> hb, ones |-> {<<r, hb \div 2>> : r \in 0..(hb \div 2)}],
          [size |-> wb, ones |-> {<<wb \div 2, c>> : c \in (wb \div 2)..(wb - 1)}],
          [size |-> wb, ones |-> {<<wb \div 2, c>> : c \in 0..(wb \div 2)}],
          [size |-> mb, ones |-> {<<i, i>> : i \in 0..a}],
          [size |-> mb, ones |-> {<<i, 2 * a - i>> : i \in 0..a}],
          [size |-> mb, ones |-> {<<i + a, i>> : i \in 0..a}],
          [size |-> mb, ones |-> {<<i + a, a - i>> : i \in 0..a}]>>

\* cv2.matchTemplate with TM_CCOEFF_NORMED and a 3 x 3 template, and the
\* threshold at 0.9 (panel.py 221-223): the places of the 3 x 3 windows
\* whose correlation with the template is above 0.9.  For a window of n set
\* pixels, c of them on the t ones of the template, the correlation is
\* (9c - tn) / sqrt((9t - t^2)(9n - n^2)), and 0 for a window that is
\* constant.
matchTemplate(img, h, w, kernel) ==
    LET t == Cardinality(kernel)
        window(i, j) == {k \in (0..2) \X (0..2) : <<i + k[1], j + k[2]>> \in img}
        n(i, j) == Cardinality(window(i, j))
        c(i, j) == Cardinality(window(i, j) \cap kernel)
        num(i, j) == 9 * c(i, j) - t * n(i, j)
        denom2(i, j) == (9 * t - t * t) * (9 * n(i, j) - n(i, j) * n(i, j))
    IN  {r \in (0..(h - 3)) \X (0..(w - 3)) :
            /\ denom2(r[1], r[2]) > 0
            /\ num(r[1], r[2]) > 0
            /\ 100 * num(r[1], r[2]) * num(r[1], r[2]) > 81 * denom2(r[1], r[2])}

\* get_dots (panel.py 220-227): the matches, moved to the centre of their
\* window by the border of zeros (pad_height = pad_width = 1).
get_dots(img, h, w, kernel) ==
    {<<r[1] + 1, r[2] + 1>> : r \in matchTemplate(img, h, w, kernel)}

\* cv2.dilate with a square kernel of odd side, anchored in its centre: a
\* pixel is set when a pixel under a one of the kernel is; pixels outside
\* the image do not count.
dilate(img, h, w, kernel) ==
    LET a == kernel.size \div 2
    IN  {p \in (0..(h - 1)) \X (0..(w - 1)) :
            \E k \in kernel.ones : <<p[1] + k[1] - a, p[2] + k[2] - a>> \in img}

\* panel.py 229-232: from the i-th pair of kernels on, the dots of the mask
\* are found, made lines, and the lines added to the mask.
RECURSIVE extend_lines(_, _, _, _)
extend_lines(img, h, w, i) ==
    IF i > Len(match_kernels) THEN img
    ELSE LET dots  == get_dots(img, h, w, match_kernels[i])
             lines == dilate(dots, h, w, dilation_kernels(h, w)[i])
         IN  extend_lines(img \cup lines, h, w, i + 1)

\* joint_panel_split_extraction.  Lines 150-151: the pixels are counted and
\* the mask is thinned; 229-232: the lines are extended; 234-239: the
\* division raises when no pixel is left; else the mask is dilated and
\* inverted.
joint_panel_split_extraction(g, m) ==
    LET pixels_before == count_nonzero(m)
        thinned       == thinning({p \in DOMAIN m.px : m.px[p] # 0},
                                  g.height, g.width)
        extended      == extend_lines(thinned, g.height, g.width, 1)
        pixels_now    == Cardinality(extended)
    IN  IF zero_division(pixels_now)
        THEN [by |-> "joint_panel_split_extraction", raised |-> TRUE,
              px |-> <<>>]
        ELSE LET quotient      == pixels_before \div (4 * pixels_now)
                 dilation_size == quotient + (quotient % 2) + 1
                 ones          == [size |-> dilation_size,
                                   ones |-> (0..(dilation_size - 1))
                                                \X (0..(dilation_size - 1))]
                 dilated       == dilate(extended, g.height, g.width, ones)
             IN  [by |-> "joint_panel_split_extraction", raised |-> FALSE,
                  px |-> [p \in DOMAIN m.px |->
                             IF p \in dilated THEN 0 ELSE 255]]

get_page_without_background(g, m, split_joint_panels) ==
    IF splitter_runs(count_nonzero(m), m.height * m.width, split_joint_panels)
    THEN joint_panel_split_extraction(g, m)
    ELSE subtract(g, m)

\* OpenCV rejects the 3 x 3 templates of the splitter on a smaller mask.
MaskMinSide == 3

MaskMaxHeight == 4

MaskMaxWidth == 5

\* A grayscale page, and the mask whose first k pixels (row by row) are 255.
GrayPage(h, w) ==
    [height |-> h, width |-> w,
     px |-> [p \in (0..(h - 1)) \X (0..(w - 1)) |-> (20 + 90 * p[1] + 47 * p[2]) % 256]]

MaskOf(h, w, k) ==
    [height |-> h, width |-> w,
     px |-> [p \in (0..(h - 1)) \X (0..(w - 1)) |->
                IF p[1] * w + p[2] < k THEN 255 ELSE 0]]

\* The masks of a page of h x w pixels: the first k pixels for every k; the
\* eight masks of two pixels that lie as the ones of a template of the
\* splitter, the centre in the second row and the middle column; and, on a
\* page of 4 x 4 pixels or more, the block of four pixels off the border.
Masks(h, w) ==
    LET MaskOfPixels(S) ==
            [height |-> h, width |-> w,
             px |-> [p \in (0..(h - 1)) \X (0..(w - 1)) |->
                        IF p \in S THEN 255 ELSE 0]]
        Segment(i) ==
            {<<k[1], k[2] + ((w - 1) \div 2) - 1>> : k \in match_kernels[i]}
    IN  {MaskOf(h, w, k) : k \in 0..(h * w)}
            \cup {MaskOfPixels(Segment(i)) : i \in DOMAIN match_kernels}
            \cup (IF h >= 4 /\ w >= 4 THEN {MaskOfPixels((1..2) \X (1..2))}
                  ELSE {})

PageCalls ==
    UNION {{[fn |-> "get_page_without_background",
             grayscale_image |-> GrayPage(d[1], d[2]),
             background_mask |-> m, split_joint_panels |-> s] :
               m \in Masks(d[1], d[2]), s \in BOOLEAN} :
           d \in (MaskMinSide..MaskMaxHeight) \X (MaskMinSide..MaskMaxWidth)}

InitPage ==
    /\ call \in PageCalls
    /\ pc = "call"
    /\ ret = "none"
    /\ PipelineIdle
    /\ BatchIdle
    /\ ProcessIdle

ApplyGetPageWithoutBackground ==
    /\ pc = "call"
    /\ call.fn = "get_page_without_background"
    /\ LET page == get_page_without_background(call.grayscale_image,
                       call.background_mask, call.split_joint_panels)
       IN  /\ ret' = page
           /\ pc' = IF page.raised THEN "raised" ELSE "done"
    /\ UNCHANGED call
    /\ UNCHANGED PipelineVars
    /\ UNCHANGED BatchVars
    /\ UNCHANGED ProcessVars

NextPage == ApplyGetPageWithoutBackground

SpecPage == InitPage /\ [][NextPage]_vars

PageDone ==
    pc \in {"done", "raised"} /\ call.fn = "get_page_without_background"

\* The number of non-zero pixels of the mask, and of all its pixels.
MaskArea ==
    Cardinality({p \in DOMAIN call.background_mask.px :
                    call.background_mask.px[p] > 0})

MaskSize == call.background_mask.height * call.background_mask.width

\* C10: the joint-panel splitter runs iff splitting was requested and the
\* non-zero mask pixels are strictly fewer than 30% of the mask's pixels; in
\* every other case the result is the grayscale image minus the mask.
C10_SplitterPolicy ==
    PageDone =>
        /\ ret.by = "joint_panel_split_extraction"
               <=> (call.split_joint_panels /\ 100 * MaskArea < 30 * MaskSize)
        /\ ret.by # "joint_panel_split_extraction" =>
               /\ ret.by = "subtract"
               /\ pc = "done"
               /\ \A p \in DOMAIN call.grayscale_image.px :
                      ret.px[p] = IF call.background_mask.px[p] = 255 THEN 0
                                  ELSE call.grayscale_image.px[p]

\* C10 witness: splitting was requested with a coverage of exactly 30% and
\* the splitter did not run.
C10_Witness ==
    /\ PageDone
    /\ call.split_joint_panels
    /\ MaskArea = 6
    /\ MaskSize = 20
    /\ ret.by = "subtract"

(***************************************************************************)
(* The page-size test (panel.py 109) in generate_panel_blocks: a           *)
(* 100 x 200 page whose contours include bands as wide or as tall as 99%   *)
(* of the page, and bands one pixel short of it.                           *)
(***************************************************************************)
BandImage == Image(200, 100, 0)

WideBand == RectContour(0, 0, 98, 39)

AlmostWideBand == RectContour(0, 50, 97, 89)

TallBand == RectContour(0, 0, 39, 197)

AlmostTallBand == RectContour(50, 0, 89, 196)

FullPage == RectContour(0, 0, BandImage.width - 1, BandImage.height - 1)

SmallBlock == RectContour(0, 100, 9, 109)

LowLeft == RectContour(0, 120, 60, 180)

LowRight == RectContour(65, 120, 95, 180)

BandPool == <<LowRight, WideBand, SmallBlock, AlmostWideBand, TallBand,
              AlmostTallBand, LowLeft, FullPage>>

BandLists ==
    {SelectSeqBy(BandPool, S) :
        S \in {S \in SUBSET Range(BandPool) :
                 /\ Cardinality(S) <= MaxFound
                 /\ \A a, b \in S : a # b => ~BoxesOverlap(a, b)}}

BandCalls ==
    {[fn |-> "generate_panel_blocks", image |-> BandImage,
      background |-> [mask_area |-> 2000, pixels_now |-> 500],
      split_joint_panels |-> FALSE, primary_found |-> p, threshold_found |-> t, fallback |-> f,
      mode |-> "bounding", merge |-> g, rtl_order |-> FALSE] :
        p \in BandLists, t \in BandLists, f \in BOOLEAN, g \in MergeModes}

InitBand ==
    /\ call \in BandCalls
    /\ pc = "start"
    /\ ret = "none"
    /\ PipelineIdle
    /\ BatchIdle
    /\ ProcessIdle

NextBand ==
    \/ FindContours
    \/ SortContours
    \/ MergeNone
    \/ GroupContours
    \/ MergeGroup
    \/ ReturnPanels

SpecBand == InitBand /\ [][NextBand]_vars

\* The crop of a panel, and the crops of the contours of a list.
CropOf(panel) == [x |-> panel.x, y |-> panel.y, w |-> panel.w, h |-> panel.h]

CropsOf(ps) == [i \in DOMAIN ps |-> CropOf(ps[i])]

BoxesOfContours(cs) == [i \in DOMAIN cs |-> boundingRect(cs[i])]

\* The contours of a list that pass the area filter, in the list's order,
\* and those of them whose box is under 99% of the page in both directions.
PassedContours(found) == SelectSeqBy(found, BigContours(found, call.image))

CoversPage(c) ==
    \/ 100 * boundingRect(c).w >= 99 * call.image.width
    \/ 100 * boundingRect(c).h >= 99 * call.image.height

NotPageSized(found) ==
    SelectSeqBy(found, {c \in BigContours(found, call.image) : ~CoversPage(c)})

RECURSIVE PartsCount(_)
PartsCount(ps) ==
    IF ps = <<>> THEN 0 ELSE Len(Head(ps).parts) + PartsCount(Tail(ps))

\* The fallback replaced the primary panels (merge = NONE).
FallbackReplaced ==
    /\ call.fallback
    /\ Len(PassedContours(call.primary_found)) < 2
    /\ Len(NotPageSized(call.threshold_found))
           > Len(PassedContours(call.primary_found))

\* C11: the page-size rejection applies to threshold extraction only.  When
\* the fallback replaces the result, the panels are the crops of exactly the
\* threshold contours that pass the area filter and are under 99% of the
\* page's width and height; the primary extraction gives one panel per
\* contour that passes the area filter, whatever its size.
C11_PageSizeOnlyInThreshold ==
    TraditionalDone =>
        /\ (call.merge = "none" /\ FallbackReplaced) =>
               CropsOf(ret) = BoxesOfContours(NotPageSized(call.threshold_found))
        /\ (call.merge = "none" /\ ~FallbackReplaced) =>
               CropsOf(ret) = BoxesOfContours(contours)
        /\ Len(contours) = Len(PassedContours(call.primary_found))
        /\ (call.merge # "none" /\ ~call.fallback) =>
               PartsCount(ret) = Len(PassedContours(call.primary_found))

\* C11 witness: the primary extraction kept the page-sized contour it found;
\* the fallback then ran, dropped a band as wide as 99% of the page and kept
\* the band one pixel narrower.
C11_Witness ==
    /\ TraditionalDone
    /\ call.merge = "none"
    /\ call.fallback
    /\ call.primary_found = <<FullPage>>
    /\ PrimaryPanels = <<[mode |-> "bounding", x |-> 0, y |-> 0,
                          w |-> 100, h |-> 200]>>
    /\ WideBand \in Range(call.threshold_found)
    /\ AlmostWideBand \in Range(call.threshold_found)
    /\ Len(call.threshold_found) = 3
    /\ Len(ret) = 2

(***************************************************************************)
(* The lazily loaded detector (model.py).  Threads invoke Model.load() and *)
(* Model.__call__() on the process-wide `model` object; each thread is at  *)
(* a line of the method it runs, and a step is one line's read or write of *)
(* what the threads share.  The first hub_failures invocations of          *)
(* torch.hub.load raise, the later ones return a new instance; the imports *)
(* of line 13-17 raise when import_fails.                                  *)
(***************************************************************************)
ModelOps == {"load", "__call__"}

Platforms == {"win32", "linux"}

\* The length of a sequential series of invocations.
MaxOps == 3

\* How many invocations of torch.hub.load may raise.
MaxFailures == 2

\* How many threads call into `model` concurrently.
MaxThreads == 2

SequentialCalls ==
    {[fn |-> "Model", platform |-> p, ops |-> <<s>>, hub_failures |-> k,
      import_fails |-> i] :
        p \in Platforms, s \in SeqsUpTo(ModelOps, MaxOps),
        k \in 0..MaxFailures, i \in BOOLEAN}

ConcurrentCalls ==
    {[fn |-> "Model", platform |-> p, ops |-> o, hub_failures |-> k,
      import_fails |-> i] :
        p \in Platforms, o \in [1..MaxThreads -> {<<op>> : op \in ModelOps}],
        k \in 0..MaxFailures, i \in BOOLEAN}

\* A thread outside the object: no invocation under way, no local bound;
\* `loaded` is what torch.hub.load returned to the thread (None: nothing).
IdleThread ==
    [pc |-> "idle", done |-> 0, bound |-> FALSE, temp |-> "unbound",
     loaded |-> None, results |-> <<>>]

InitModelWith(calls) ==
    /\ call \in calls
    /\ pc = "threads"
    /\ ret = "none"
    /\ PipelineIdle
    /\ BatchIdle
    /\ model = None
    /\ imported = FALSE
    /\ loads = 0
    /\ PosixPath = "PosixPath"
    /\ threads = [t \in DOMAIN call.ops |-> IdleThread]
    /\ earlier = <<>>

InitModel == InitModelWith(SequentialCalls)

InitModelThreads == InitModelWith(ConcurrentCalls)

\* The method the thread runs (or runs next).
OpOf(t) == call.ops[t][threads[t].done + 1]

Returned == [kind |-> "returned", error |-> "", instance |-> 0]

Raised(e) == [kind |-> "raised", error |-> e, instance |-> 0]

Results(m) == [kind |-> "results", error |-> "", instance |-> m]

\* The invocation of thread t ends with the given outcome.
Finish(t, outcome) ==
    [threads EXCEPT ![t].pc = "idle", ![t].done = @ + 1,
                    ![t].results = Append(@, outcome)]

Goto(t, line) == [threads EXCEPT ![t].pc = line]

ModelFrame == UNCHANGED <<call, pc, ret, earlier>> /\ UNCHANGED PipelineVars
                  /\ UNCHANGED BatchVars

\* model.py 33-35: what pathlib.PosixPath is bound to when line 32 is left.
restored_PosixPath_on_return(is_windows, raised, temp, current) ==
    IF is_windows /\ ~raised THEN temp ELSE current

restored_PosixPath(is_windows, raised, temp, current) ==
    IF is_windows THEN temp ELSE current

\* A thread calls model.load() or model(...).
Invoke(t) ==
    /\ threads[t].pc = "idle"
    /\ threads[t].done < Len(call.ops[t])
    /\ threads' = Goto(t, "check")
    /\ UNCHANGED <<model, imported, loads, PosixPath>>
    /\ ModelFrame

\* __load has returned: load returns (model.py 8), __call__ goes on to
\* line 44.
Loaded(t) ==
    IF OpOf(t) = "load" THEN Finish(t, Returned) ELSE Goto(t, "infer")

\* model.py 7-8 and 42-43: __load is entered (its locals unbound) when
\* self.model is None; otherwise load returns and __call__ goes on to 44.
CheckModel(t) ==
    /\ threads[t].pc = "check"
    /\ threads' =
           IF load_needed(model)
           THEN [threads EXCEPT ![t].pc = "imported", ![t].bound = FALSE,
                                ![t].temp = "unbound", ![t].loaded = None]
           ELSE Loaded(t)
    /\ UNCHANGED <<model, imported, loads, PosixPath>>
    /\ ModelFrame

\* model.py 11: `if not self.imported`.
CheckImported(t) ==
    /\ threads[t].pc = "imported"
    /\ threads' = IF imported THEN Goto(t, "stderr")
                  ELSE Goto(t, "set_imported")
    /\ UNCHANGED <<model, imported, loads, PosixPath>>
    /\ ModelFrame

\* model.py 12: self.imported = True, before the imports.
SetImported(t) ==
    /\ threads[t].pc = "set_imported"
    /\ imported' = TRUE
    /\ threads' = Goto(t, "imports")
    /\ UNCHANGED <<model, loads, PosixPath>>
    /\ ModelFrame

\* model.py 13-17: the imports bind the locals torch, pathlib, sys, os and
\* resource_path, or raise.
Imports(t) ==
    /\ threads[t].pc = "imports"
    /\ threads' =
           IF call.import_fails THEN Finish(t, Raised("ImportError"))
           ELSE [threads EXCEPT ![t].pc = "stderr", ![t].bound = TRUE]
    /\ UNCHANGED <<model, imported, loads, PosixPath>>
    /\ ModelFrame

\* model.py 20-21: `sys` is a local of __load: reading it when the imports
\* were skipped raises UnboundLocalError.
CheckStderr(t) ==
    /\ threads[t].pc = "stderr"
    /\ threads' = IF threads[t].bound THEN Goto(t, "platform")
                  ELSE Finish(t, Raised("UnboundLocalError"))
    /\ UNCHANGED <<model, imported, loads, PosixPath>>
    /\ ModelFrame

\* model.py 24-28: on Windows pathlib.PosixPath is saved in temp.
PlatformCheck(t) ==
    /\ threads[t].pc = "platform"
    /\ threads' = IF call.platform = "win32"
                  THEN [threads EXCEPT ![t].pc = "patch", ![t].temp = PosixPath]
                  ELSE Goto(t, "hub_load")
    /\ UNCHANGED <<model, imported, loads, PosixPath>>
    /\ ModelFrame

\* model.py 29: pathlib.PosixPath = pathlib.WindowsPath.
PatchPosixPath(t) ==
    /\ threads[t].pc = "patch"
    /\ PosixPath' = "WindowsPath"
    /\ threads' = Goto(t, "hub_load")
    /\ UNCHANGED <<model, imported, loads>>
    /\ ModelFrame

\* model.py 32 and 38, right-hand side: torch.hub.load is invoked and
\* returns a new instance or raises; on Windows the finally clause is next,
\* elsewhere the exception leaves __load.
HubLoad(t) ==
    /\ threads[t].pc = "hub_load"
    /\ loads' = loads + 1
    /\ threads' =
           IF loads < call.hub_failures
           THEN IF call.platform = "win32" THEN Goto(t, "restore")
                ELSE Finish(t, Raised("LoadError"))
           ELSE [threads EXCEPT ![t].pc = "assign", ![t].loaded = loads + 1]
    /\ UNCHANGED <<model, imported, PosixPath>>
    /\ ModelFrame

\* model.py 32 and 38, the assignment: self.model = <the instance>.
AssignModel(t) ==
    /\ threads[t].pc = "assign"
    /\ model' = threads[t].loaded
    /\ threads' = IF call.platform = "win32" THEN Goto(t, "restore")
                  ELSE Loaded(t)
    /\ UNCHANGED <<imported, loads, PosixPath>>
    /\ ModelFrame

\* model.py 33-35: the finally clause rebinds pathlib.PosixPath; then the
\* exception of torch.hub.load goes on, or __load returns.
RestorePosixPath(t) ==
    /\ threads[t].pc = "restore"
    /\ LET raised == threads[t].loaded = None
       IN  /\ PosixPath' = restored_PosixPath(call.platform = "win32", raised,
                                              threads[t].temp, PosixPath)
           /\ threads' = IF raised THEN Finish(t, Raised("LoadError"))
                         ELSE Loaded(t)
    /\ UNCHANGED <<model, imported, loads>>
    /\ ModelFrame

\* model.py 44: return self.model(*args, **kwds).
Infer(t) ==
    /\ threads[t].pc = "infer"
    /\ threads' = Finish(t, Results(model))
    /\ UNCHANGED <<model, imported, loads, PosixPath>>
    /\ ModelFrame

NextModel ==
    \E t \in DOMAIN threads :
        \/ Invoke(t)
        \/ CheckModel(t)
        \/ CheckImported(t)
        \/ SetImported(t)
        \/ Imports(t)
        \/ CheckStderr(t)
        \/ PlatformCheck(t)
        \/ PatchPosixPath(t)
        \/ HubLoad(t)
        \/ AssignModel(t)
        \/ RestorePosixPath(t)
        \/ Infer(t)

SpecModel == InitModel /\ [][NextModel]_vars

SpecModelThreads == InitModelThreads /\ [][NextModel]_vars

\* The loader succeeds: neither the imports nor torch.hub.load raise.
LoaderSucceeds == call.fn = "Model" /\ call.hub_failures = 0 /\ ~call.import_fails

AllResults == UNION {Range(threads[t].results) : t \in DOMAIN threads}

\* C12: in a sequential series of Model.load() and Model.__call__() in which
\* the loader succeeds, torch.hub.load is invoked exactly once, by the first
\* invocation; Model.model is never reassigned afterwards and every later
\* call returns the results of that same instance.
C12_LoadedOnce ==
    /\ [](LoaderSucceeds =>
            /\ loads <= 1
            /\ model \in {None, 1}
            /\ \A t \in DOMAIN threads :
                   threads[t].done >= 1 => (loads = 1 /\ model = 1)
            /\ \A r \in AllResults :
                   /\ r.kind # "raised"
                   /\ r.kind = "results" => r.instance = 1)
    /\ [][(LoaderSucceeds /\ model # None) => model' = model]_vars

\* C12 witness: three invocations, a call after a load after a call, one
\* load.
C12_Witness ==
    /\ LoaderSucceeds
    /\ call.ops = <<(<<"__call__", "load", "__call__">>)>>
    /\ threads[1].done = 3
    /\ threads[1].results = <<Results(1), Returned, Results(1)>>
    /\ loads = 1

\* The thread is inside the section of `model`: at the load-if-absent check,
\* in the load, or in the inference call.
InSection(t) == threads[t].pc # "idle"

\* C13 (as claimed): when several threads call the shared `model` object
\* concurrently, no two of them are inside the section (check, load,
\* inference) at the same time.
C13_Serialized ==
    call.fn = "Model" =>
        \A s, t \in DOMAIN threads : (InSection(s) /\ InSection(t)) => s = t

(***************************************************************************)
(* generate_panel_blocks_by_ai with the rows the detector returns on the   *)
(* 16 x 16 page (tenths of a pixel).  The detector clips its boxes to the  *)
(* image: 0 <= x1 <= x2 <= W and 0 <= y1 <= y2 <= H.  The pool has the     *)
(* whole page, rows that end on the right and the bottom border, a row in  *)
(* the last pixel and a row without extent.                                *)
(***************************************************************************)
BorderDetectionPool ==
    <<Detection(0, 0, 160, 160), Detection(4, 96, 69, 158),
      Detection(95, 0, 160, 60), Detection(0, 101, 59, 160),
      Detection(159, 159, 160, 160), Detection(77, 33, 77, 33)>>

BorderDetectorCalls ==
    {[fn |-> "generate_panel_blocks_by_ai", image |-> PageImage,
      detect |-> [loader |-> "ok", raises |-> FALSE, xyxy |-> d], merge |-> g,
      rtl_order |-> r] :
        d \in {SelectSeqBy(BorderDetectionPool, S) :
                  S \in {S \in SUBSET Range(BorderDetectionPool) :
                            Cardinality(S) <= MaxFound}},
        g \in MergeModes, r \in BOOLEAN}

InitDetect ==
    /\ call \in BorderDetectorCalls
    /\ pc = "start"
    /\ ret = "none"
    /\ PipelineIdle
    /\ BatchIdle
    /\ ProcessIdle

NextDetect ==
    \/ Detect
    \/ SortBoxes
    \/ AiMergeNone
    \/ GroupBoxes
    \/ AiMergeGroup
    \/ ReturnPanels

SpecDetect == InitDetect /\ [][NextDetect]_vars

WithinImage(box, image) ==
    /\ box.x >= 0 /\ box.y >= 0 /\ box.w >= 0 /\ box.h >= 0
    /\ box.x + box.w <= image.width
    /\ box.y + box.h <= image.height

\* C14: for every detection the detector can return, the box (x, y, w, h)
\* that generate_panel_blocks_by_ai builds and crops with has
\* x, y, w, h >= 0, x + w <= W and y + h <= H.
C14_BoxesWithinImage ==
    (call.fn = "generate_panel_blocks_by_ai" /\ pc \notin {"start", "raised"}) =>
        /\ \A i \in DOMAIN contours : WithinImage(contours[i], call.image)
        /\ (pc = "done" /\ call.merge = "none") =>
               \A i \in DOMAIN ret : WithinImage(ret[i], call.image)

\* C14 witness: the call returned the crops of a row that ends on the right
\* border, of the row in the last pixel and of the row without extent.
C14_Witness ==
    /\ call.fn = "generate_panel_blocks_by_ai"
    /\ pc = "done"
    /\ call.merge = "none"
    /\ Len(ret) = 3
    /\ \E i \in DOMAIN ret : ret[i].x = 9 /\ ret[i].x + ret[i].w = call.image.width
    /\ \E i \in DOMAIN ret : ret[i].x = 15 /\ ret[i].w = 1 /\ ret[i].h = 1
    /\ \E i \in DOMAIN ret : ret[i].w = 0 /\ ret[i].h = 0

(***************************************************************************)
(* generate_panel_blocks called twice in the same process on the same      *)
(* image array with the same options.  What the first call leaves behind   *)
(* is the image array, which the caller passes again as the first call     *)
(* left it, and the process-wide objects.  The locals of the second call's *)
(* frame are unbound until the call assigns them (panel.py 332-350); the   *)
(* model leaves in them what the first call put there, so that a read      *)
(* before the assignment would show in the result.                         *)
(***************************************************************************)
InitTwice ==
    /\ call \in GeneratePanelBlocksCalls
    /\ pc = "start"
    /\ ret = "none"
    /\ PipelineIdle
    /\ BatchIdle
    /\ ProcessIdle

\* The caller keeps the panels and the pixels they were cut from, and calls
\* generate_panel_blocks again with the same array and the same options.
CallAgain ==
    /\ pc = "done"
    /\ call.fn = "generate_panel_blocks"
    /\ earlier = <<>>
    /\ earlier' = Append(earlier, [panels |-> ret, image |-> call.image])
    /\ pc' = "start"
    /\ ret' = "none"
    /\ thresholdCalls' = 0
    /\ UNCHANGED <<call, contours, grouped, panels>>
    /\ UNCHANGED <<model, imported, loads, PosixPath, threads>>
    /\ UNCHANGED BatchVars

NextTwice ==
    \/ FindContours
    \/ SortContours
    \/ MergeNone
    \/ GroupContours
    \/ MergeGroup
    \/ ReturnPanels
    \/ CallAgain

SpecTwice == InitTwice /\ [][NextTwice]_vars

LoadFailed(k) ==
    /\ k \in DOMAIN threads[1].results
    /\ threads[1].results[k].kind = "raised"
    /\ threads[1].results[k].error \in {"ImportError", "LoadError"}

\* After the first failure the loader succeeds.
LoaderThenSucceeds ==
    \/ call.import_fails /\ call.hub_failures = 0
    \/ ~call.import_fails /\ call.hub_failures = 1

\* C16 (as claimed): when an attempt to load the model fails the exception
\* reaches the caller and Model.model stays None; the next invocation makes
\* a full load attempt again, which succeeds (and __call__ returns the
\* inference result) when the loader then succeeds.
C16_FailureRecoverable ==
    (call.fn = "Model" /\ LoadFailed(1) /\ LoaderThenSucceeds) =>
        /\ threads[1].done = 1 => model = None
        /\ threads[1].done >= 2 =>
               /\ threads[1].results[2].kind # "raised"
               /\ model # None
               /\ call.ops[1][2] = "__call__" =>
                      threads[1].results[2] = Results(model)

\* No invocation is between the rebinding of pathlib.PosixPath (model.py 29)
\* and the end of the finally clause (model.py 35) or, off Windows, in the
\* load of line 38.
NoLoadUnderWay ==
    \A t \in DOMAIN threads :
        threads[t].pc \notin {"hub_load", "assign", "restore"}

\* C18: on Windows, once __load has run past the platform check and has
\* returned or raised, pathlib.PosixPath is bound to the class it was bound
\* to before the call (it is WindowsPath only while torch.hub.load runs); on
\* every other platform it is never rebound.
C18_PosixPathRestored ==
    call.fn = "Model" =>
        /\ call.platform # "win32" => PosixPath = "PosixPath"
        /\ NoLoadUnderWay => PosixPath = "PosixPath"
        /\ (call.platform = "win32" /\ ~NoLoadUnderWay) => PosixPath = "WindowsPath"

\* C18 witness: on Windows torch.hub.load ran and raised, the invocation
\* has ended, and PosixPath is PosixPath again.
C18_Witness ==
    /\ call.fn = "Model"
    /\ call.platform = "win32"
    /\ threads[1].results = <<Raised("LoadError")>>
    /\ threads[1].pc = "idle"
    /\ loads = 1
    /\ PosixPath = "PosixPath"

====
